---- MODULE Spec2Model ----
(***************************************************************************)
(* Resilience layer of GravityWaves_TseTmc: the circuit breaker            *)
(* (utils/circuit_breaker.py), the token-bucket and sliding-window rate    *)
(* limiters (utils/rate_limiter.py), the retry executor                    *)
(* (utils/retry_mechanism.py) and the per-endpoint registries              *)
(* APIRateLimiter and APICircuitBreaker.                                   *)
(*                                                                         *)
(* Time is counted in whole clock units; `now` is what time.time()         *)
(* returns.  A timestamp that may be None is a sequence: <<>> is None and  *)
(* <<t>> is the time t.                                                    *)
(***************************************************************************)
EXTENDS Integers, Sequences, FiniteSets, TLC

\* ---------------------------------------------------------------- bounds
MaxTime == 3          \* the clock runs from 0 to MaxTime
MaxOps == 5           \* operations started in one behaviour
MaxThreshold == 2     \* failure_threshold ranges over 0..MaxThreshold
MaxTimeout == 2       \* recovery_timeout ranges over 0..MaxTimeout
NThreads == 2         \* threads that work on one object at the same time
MaxThreadOps == 3     \* operations started by the threads in one behaviour
MaxRate == 2          \* rate ranges over 0..MaxRate (tokens per clock unit)
MaxCapacity == 2      \* capacity ranges over 0..MaxCapacity
MaxRequests == 2      \* max_requests ranges over 0..MaxRequests
MaxWindow == 2        \* window_seconds ranges over 0..MaxWindow
MaxAttempts == 3      \* max_attempts ranges over 0..MaxAttempts
MaxExecutes == 2      \* execute() calls made on one retry executor
MaxWaitCalls == 2     \* calls the lone caller of wait_for_tokens makes
MaxKeywords == 2      \* category keywords that occur in one endpoint name
MaxRegistryOps == 3   \* steps of one behaviour of the registries

VARIABLES
    now,      \* the clock, time.time()
    nops,     \* number of operations started so far
    cb,       \* the CircuitBreaker object (its attributes)
    ev,       \* the last completed operation on the breaker and its outcome
    pc,       \* per thread: the statement it executes next ("idle": none)
    frame,    \* per thread: the local variables of the method it is in
    tally,    \* how many invoked functions returned / raised a counted exception
    rl,       \* the RateLimiter object (its attributes)
    rev,      \* the last completed operation on the limiter and its outcome
    lock,     \* RateLimiter.lock: 0 when free, else the thread that holds it
    ledger,   \* what the limiter has granted: the tokens handed out so far, and
              \* the time of the acquisition that emptied the bucket, if it
              \* was the last one
    sw,       \* the SlidingWindowRateLimiter object (its attributes)
    sev,      \* the last completed acquire() on the sliding window
    swlock,   \* SlidingWindowRateLimiter.lock: 0 when free, else its holder
    admitted, \* the clock readings at which acquire() granted a request
    rt,       \* one ExponentialBackoffRetry.execute(): its configuration, the
              \* operation's behaviour, and how far the loop has come
    api_rl,   \* the APIRateLimiter registry: its dict and the limiters made
    api_cb,   \* the APICircuitBreaker registry: its dict and the breakers made
    rgev,     \* the last completed operation on a registry and its outcome
    endpoints \* the endpoint names the callers of the registries use

vars == <<now, nops, cb, ev, pc, frame, tally, rl, rev, lock, ledger,
          sw, sev, swlock, admitted, rt, api_rl, api_cb, rgev, endpoints>>
cbVars == <<cb, ev, tally>>
rlVars == <<rl, rev, lock, ledger>>
swVars == <<sw, sev, swlock, admitted>>
regVars == <<api_rl, api_cb, rgev, endpoints>>

Threads == 1..NThreads

\* ------------------------------------------------- CircuitBreakerState
CLOSED == "closed"
OPEN == "open"
HALF_OPEN == "half_open"

\* What the wrapped function does when it is invoked: it returns, raises an
\* exception that is an instance of expected_exception, or raises another one.
Outcomes == {"ok", "expected", "other"}

\* CircuitBreaker.__init__
NewCircuitBreaker(threshold, timeout) ==
    [failure_threshold |-> threshold,
     recovery_timeout |-> timeout,
     state |-> CLOSED,
     failure_count |-> 0,
     last_failure_time |-> <<>>,
     success_count |-> 0,
     failure_count_total |-> 0]

\* (mutant) the elapsed time is measured from 0 instead of from the last failure
can_attempt_reset_from_zero(b, t) ==
    IF b.last_failure_time = <<>>
    THEN TRUE
    ELSE t >= b.recovery_timeout

\* CircuitBreaker._can_attempt_reset
can_attempt_reset(b, t) ==
    IF b.last_failure_time = <<>>
    THEN TRUE
    ELSE t - b.last_failure_time[1] >= b.recovery_timeout

\* (mutant) every success clears failure_count, whatever the state
record_success_always_clears(b) ==
    [b EXCEPT !.success_count = @ + 1,
              !.failure_count = 0,
              !.state = IF @ = HALF_OPEN THEN CLOSED ELSE @]

\* (mutant) a success also forgets the time of the last failure
record_success_forgets_failure(b) ==
    LET b1 == [b EXCEPT !.success_count = @ + 1, !.last_failure_time = <<>>]
    IN  IF b1.state = HALF_OPEN
        THEN [b1 EXCEPT !.state = CLOSED, !.failure_count = 0]
        ELSE b1

\* CircuitBreaker._record_success
record_success(b) ==
    LET b1 == [b EXCEPT !.success_count = @ + 1]
    IN  IF b1.state = HALF_OPEN
        THEN [b1 EXCEPT !.state = CLOSED, !.failure_count = 0]
        ELSE b1

\* (mutant) the threshold test is strict
record_failure_strict(b, t) ==
    LET b1 == [b EXCEPT !.failure_count = @ + 1,
                        !.failure_count_total = @ + 1,
                        !.last_failure_time = <<t>>]
    IN  IF b1.state = HALF_OPEN
        THEN [b1 EXCEPT !.state = OPEN]
        ELSE IF b1.failure_count > b1.failure_threshold
             THEN [b1 EXCEPT !.state = OPEN]
             ELSE b1

\* CircuitBreaker._record_failure
record_failure(b, t) ==
    LET b1 == [b EXCEPT !.failure_count = @ + 1,
                        !.failure_count_total = @ + 1,
                        !.last_failure_time = <<t>>]
    IN  IF b1.state = HALF_OPEN
        THEN [b1 EXCEPT !.state = OPEN]
        ELSE IF b1.failure_count >= b1.failure_threshold
             THEN [b1 EXCEPT !.state = OPEN]
             ELSE b1

\* (mutant) the OPEN -> HALF_OPEN assignment is missing
call_no_half_open(b, o, t) ==
    IF b.state = OPEN /\ ~can_attempt_reset(b, t)
    THEN [cb |-> b, result |-> "CircuitBreakerOpenException", invoked |-> FALSE]
    ELSE CASE o = "ok" ->
                [cb |-> record_success(b), result |-> "returned",
                 invoked |-> TRUE]
           [] o = "expected" ->
                [cb |-> record_failure(b, t), result |-> "expected_exception",
                 invoked |-> TRUE]
           [] OTHER ->
                [cb |-> b, result |-> "other_exception", invoked |-> TRUE]

\* (mutant) the except clause catches every exception
call_counts_every_exception(b, o, t) ==
    IF b.state = OPEN /\ ~can_attempt_reset(b, t)
    THEN [cb |-> b, result |-> "CircuitBreakerOpenException", invoked |-> FALSE]
    ELSE LET b1 == IF b.state = OPEN THEN [b EXCEPT !.state = HALF_OPEN] ELSE b
         IN  CASE o = "ok" ->
                    [cb |-> record_success(b1), result |-> "returned",
                     invoked |-> TRUE]
               [] o = "expected" ->
                    [cb |-> record_failure(b1, t), result |-> "expected_exception",
                     invoked |-> TRUE]
               [] OTHER ->
                    [cb |-> record_failure(b1, t), result |-> "other_exception",
                     invoked |-> TRUE]

\* CircuitBreaker.call, run without interruption at time t on a function
\* whose outcome is o: the breaker afterwards, what the caller gets, and
\* whether the function was invoked.
call(b, o, t) ==
    IF b.state = OPEN /\ ~can_attempt_reset(b, t)
    THEN [cb |-> b, result |-> "CircuitBreakerOpenException", invoked |-> FALSE]
    ELSE LET b1 == IF b.state = OPEN THEN [b EXCEPT !.state = HALF_OPEN] ELSE b
         IN  CASE o = "ok" ->
                    [cb |-> record_success(b1), result |-> "returned",
                     invoked |-> TRUE]
               [] o = "expected" ->
                    [cb |-> record_failure(b1, t), result |-> "expected_exception",
                     invoked |-> TRUE]
               [] OTHER ->
                    [cb |-> b1, result |-> "other_exception", invoked |-> TRUE]

\* (mutant) the reset also clears the lifetime counters
reset_all_clears_metrics(b) ==
    [b EXCEPT !.state = CLOSED, !.failure_count = 0, !.last_failure_time = <<>>,
              !.success_count = 0, !.failure_count_total = 0]

\* APICircuitBreaker.reset_all, for a registry that tracks the breaker
reset_all(b) ==
    [b EXCEPT !.state = CLOSED, !.failure_count = 0, !.last_failure_time = <<>>]

\* ------------------------------------------------------------ RateLimiter
Min(a, b) == IF a <= b THEN a ELSE b

\* the token counts a caller asks for: none, fewer than none, up to more
\* than any capacity
Requests == -1 .. MaxCapacity + 1

\* RateLimiter.__init__ at time t
NewRateLimiter(rate, capacity, t) ==
    [rate |-> rate, capacity |-> capacity, tokens |-> capacity, last_update |-> t]

\* (mutant) the refill is not capped at capacity
refill_tokens_uncapped(l, t) ==
    [l EXCEPT !.tokens = l.tokens + (t - l.last_update) * l.rate,
              !.last_update = t]

\* (mutant) the refill adds the elapsed time, not the elapsed time times rate
refill_tokens_ignores_rate(l, t) ==
    [l EXCEPT !.tokens = Min(l.capacity, l.tokens + (t - l.last_update)),
              !.last_update = t]

\* RateLimiter._refill_tokens, run without interruption at time t
refill_tokens(l, t) ==
    [l EXCEPT !.tokens = Min(l.capacity, l.tokens + (t - l.last_update) * l.rate),
              !.last_update = t]

\* (mutant) the balance test is strict
acquire_strict(l, n, t) ==
    IF n <= 0
    THEN [rl |-> l, result |-> FALSE]
    ELSE LET l1 == refill_tokens(l, t)
         IN  IF l1.tokens > n
             THEN [rl |-> [l1 EXCEPT !.tokens = @ - n], result |-> TRUE]
             ELSE [rl |-> l1, result |-> FALSE]

\* RateLimiter.acquire(n), run without interruption at time t: the limiter
\* afterwards and the value returned
acquire(l, n, t) ==
    IF n <= 0
    THEN [rl |-> l, result |-> FALSE]
    ELSE LET l1 == refill_tokens(l, t)
         IN  IF l1.tokens >= n
             THEN [rl |-> [l1 EXCEPT !.tokens = @ - n], result |-> TRUE]
             ELSE [rl |-> l1, result |-> FALSE]

NoLimiterEvent(l) ==
    [op |-> "none", n |-> 0, pre |-> l, at |-> 0, result |-> FALSE,
     drained |-> <<>>]

\* nothing granted yet
NoGrants == [granted |-> 0, drained |-> <<>>]

\* the ledger after an acquire(n) at time t that returned result and left the
\* balance at tokens
Granted(g, n, result, tokens, t) ==
    IF result
    THEN [granted |-> g.granted + n,
          drained |-> IF tokens = 0 THEN <<t>> ELSE <<>>]
    ELSE g

\* ----------------------------------------------- SlidingWindowRateLimiter
\* SlidingWindowRateLimiter.__init__
NewSlidingWindowRateLimiter(max_requests, window_seconds) ==
    [max_requests |-> max_requests, window_seconds |-> window_seconds,
     requests |-> <<>>]

\* (mutant) an entry is kept one clock unit longer
RECURSIVE evict_late(_, _, _)
evict_late(requests, window_seconds, t) ==
    IF requests # <<>> /\ t - Head(requests) > window_seconds + 1
    THEN evict_late(Tail(requests), window_seconds, t)
    ELSE requests

\* lines 114-115 of SlidingWindowRateLimiter.acquire: while self.requests and
\* now - self.requests[0] > self.window_seconds: self.requests.popleft()
RECURSIVE evict(_, _, _)
evict(requests, window_seconds, t) ==
    IF requests # <<>> /\ t - Head(requests) > window_seconds
    THEN evict(Tail(requests), window_seconds, t)
    ELSE requests

\* lines 118-122 of SlidingWindowRateLimiter.acquire, on the entries kept
admit(w, kept, t) ==
    IF Len(kept) < w.max_requests
    THEN [sw |-> [w EXCEPT !.requests = Append(kept, t)], result |-> TRUE]
    ELSE [sw |-> [w EXCEPT !.requests = kept], result |-> FALSE]

\* (mutant) acquire() with the late eviction
SlidingWindow_acquire_late(w, t) ==
    admit(w, evict_late(w.requests, w.window_seconds, t), t)

\* SlidingWindowRateLimiter.acquire(), run without interruption, with t the
\* clock reading of line 110
SlidingWindow_acquire(w, t) ==
    admit(w, evict(w.requests, w.window_seconds, t), t)

NoWindowEvent(w) ==
    [op |-> "none", pre |-> w, at |-> 0, stamp |-> 0, result |-> FALSE,
     post |-> <<>>]

\* the sliding window of a behaviour that is about another object
IdleSW ==
    /\ sw = NewSlidingWindowRateLimiter(10, 60)
    /\ sev = NoWindowEvent(sw)
    /\ swlock = 0
    /\ admitted = <<>>

\* ------------------------------------------------ ExponentialBackoffRetry
\* The classes of the exceptions an operation raises; both derive from
\* Exception, so line 100 (except Exception) catches them.
ExceptionTypes == {"ConnectionError", "ValueError"}

\* isinstance(e, types) for an exception of class e that derives from Exception
isinstance(e, types) == "Exception" \in types \/ e \in types

\* RetryConfig.__init__
RetryConfig(max_attempts, retry_on_exceptions) ==
    [max_attempts |-> max_attempts, retry_on_exceptions |-> retry_on_exceptions]

\* (mutant) every exception is retried
should_retry_always(c, e) == TRUE

\* ExponentialBackoffRetry._should_retry(exception), as execute calls it:
\* status_code is None
should_retry(c, e) == isinstance(e, c.retry_on_exceptions)

\* execute() before its first attempt: nothing invoked, no sleep, and
\* last_exception = None
NotRun ==
    [invoked |-> 0, sleeps |-> 0, last_exception |-> <<>>, trace |-> <<>>,
     result |-> "none"]

\* lines 113-116: raise RetryError(message, last_exception)
RetryError(st) == [st EXCEPT !.result = "RetryError"]

\* (mutant) the loop makes one attempt more than max_attempts
RECURSIVE for_attempt_one_more(_, _, _, _)
for_attempt_one_more(c, plan, attempt, st) ==
    IF attempt >= c.max_attempts + 1
    THEN RetryError(st)
    ELSE LET st1 == [st EXCEPT !.invoked = @ + 1,
                               !.trace = Append(@, "invoke")]
         IN  IF attempt + 1 > Len(plan)
             THEN [st1 EXCEPT !.result = "returned"]
             ELSE LET e == plan[attempt + 1]
                      st2 == [st1 EXCEPT !.last_exception = <<attempt + 1, e>>]
                  IN  IF attempt < c.max_attempts /\ should_retry(c, e)
                      THEN for_attempt_one_more(c, plan, attempt + 1,
                               [st2 EXCEPT !.sleeps = @ + 1,
                                           !.trace = Append(@, "sleep")])
                      ELSE RetryError(st2)

\* (mutant) RetryError is raised with the first exception, not the last
RECURSIVE for_attempt_keeps_first(_, _, _, _)
for_attempt_keeps_first(c, plan, attempt, st) ==
    IF attempt >= c.max_attempts
    THEN RetryError(st)
    ELSE LET st1 == [st EXCEPT !.invoked = @ + 1,
                               !.trace = Append(@, "invoke")]
         IN  IF attempt + 1 > Len(plan)
             THEN [st1 EXCEPT !.result = "returned"]
             ELSE LET e == plan[attempt + 1]
                      st2 == IF st1.last_exception = <<>>
                             THEN [st1 EXCEPT !.last_exception = <<attempt + 1, e>>]
                             ELSE st1
                  IN  IF attempt < c.max_attempts - 1 /\ should_retry(c, e)
                      THEN for_attempt_keeps_first(c, plan, attempt + 1,
                               [st2 EXCEPT !.sleeps = @ + 1,
                                           !.trace = Append(@, "sleep")])
                      ELSE RetryError(st2)

\* (mutant) the loop sleeps after every retryable failure, the last too
RECURSIVE for_attempt_sleeps_after_last(_, _, _, _)
for_attempt_sleeps_after_last(c, plan, attempt, st) ==
    IF attempt >= c.max_attempts
    THEN RetryError(st)
    ELSE LET st1 == [st EXCEPT !.invoked = @ + 1,
                               !.trace = Append(@, "invoke")]
         IN  IF attempt + 1 > Len(plan)
             THEN [st1 EXCEPT !.result = "returned"]
             ELSE LET e == plan[attempt + 1]
                      st2 == [st1 EXCEPT !.last_exception = <<attempt + 1, e>>]
                  IN  IF should_retry(c, e)
                      THEN for_attempt_sleeps_after_last(c, plan, attempt + 1,
                               [st2 EXCEPT !.sleeps = @ + 1,
                                           !.trace = Append(@, "sleep")])
                      ELSE RetryError(st2)

\* lines 95-116 of ExponentialBackoffRetry.execute from the iteration
\* `attempt` on.  The operation raises plan[i] on its i-th invocation and
\* returns once the plan is used up; an exception is named by the invocation
\* that raised it and its class.
RECURSIVE for_attempt(_, _, _, _)
for_attempt(c, plan, attempt, st) ==
    IF attempt >= c.max_attempts
    THEN RetryError(st)
    ELSE LET st1 == [st EXCEPT !.invoked = @ + 1,
                               !.trace = Append(@, "invoke")]
         IN  IF attempt + 1 > Len(plan)
             THEN [st1 EXCEPT !.result = "returned"]
             ELSE LET e == plan[attempt + 1]
                      st2 == [st1 EXCEPT !.last_exception = <<attempt + 1, e>>]
                  IN  IF attempt < c.max_attempts - 1 /\ should_retry(c, e)
                      THEN for_attempt(c, plan, attempt + 1,
                               [st2 EXCEPT !.sleeps = @ + 1,
                                           !.trace = Append(@, "sleep")])
                      ELSE RetryError(st2)

\* (mutant) execute() with one attempt more
execute_one_more(c, plan) == for_attempt_one_more(c, plan, 0, NotRun)

\* (mutant) execute() that reports the first exception
execute_keeps_first(c, plan) == for_attempt_keeps_first(c, plan, 0, NotRun)

\* (mutant) execute() that sleeps after its last attempt
execute_sleeps_after_last(c, plan) ==
    for_attempt_sleeps_after_last(c, plan, 0, NotRun)

\* ExponentialBackoffRetry.execute(func)
execute(c, plan) == for_attempt(c, plan, 0, NotRun)

\* (mutant) the breaker sees every attempt of the retry loop
RECURSIVE record_each_failure(_, _, _)
record_each_failure(b, n, t) ==
    IF n <= 0 THEN b ELSE record_failure(record_each_failure(b, n - 1, t), t)

retry_under_breaker_per_attempt(c, b, expected_exception, plan, t) ==
    LET out == execute(c, plan)
        r == call(b, IF out.result = "returned" THEN "ok" ELSE "expected", t)
    IN  IF r.invoked
        THEN [cb |-> IF out.result = "returned"
                     THEN r.cb
                     ELSE record_each_failure(r.cb, out.invoked - 1, t),
              result |-> out.result, out |-> out]
        ELSE [cb |-> r.cb, result |-> r.result, out |-> NotRun]

\* (mutant) the retry loop runs although the breaker rejected the call
retry_under_breaker_runs_anyway(c, b, expected_exception, plan, t) ==
    LET out == execute(c, plan)
        o == IF out.result = "returned" THEN "ok"
             ELSE IF isinstance("RetryError", {expected_exception})
                  THEN "expected" ELSE "other"
        r == call(b, o, t)
    IN  IF r.invoked
        THEN [cb |-> r.cb, result |-> out.result, out |-> out]
        ELSE [cb |-> r.cb, result |-> r.result, out |-> out]

\* lines 166-170 of CircuitBreakerAwareRetry.execute:
\* self.circuit_breaker.call(lambda: super().execute(func)), at time t on a
\* breaker whose expected_exception is the class given.  What the breaker
\* calls either returns or raises RetryError.
retry_under_breaker(c, b, expected_exception, plan, t) ==
    LET out == execute(c, plan)
        o == IF out.result = "returned" THEN "ok"
             ELSE IF isinstance("RetryError", {expected_exception})
                  THEN "expected" ELSE "other"
        r == call(b, o, t)
    IN  IF r.invoked
        THEN [cb |-> r.cb, result |-> out.result, out |-> out]
        ELSE [cb |-> r.cb, result |-> r.result, out |-> NotRun]

\* the operations a test can pass to execute: they raise on the first
\* Len(plan) invocations and return from then on.  One that raises more
\* often than execute has attempts never gets to return.
Plans == UNION {[1..n -> ExceptionTypes] : n \in 0..(MaxAttempts + 1)}

NewRetry(c, circuit_breaker, expected_exception) ==
    [config |-> c, circuit_breaker |-> circuit_breaker,
     expected_exception |-> expected_exception,
     op |-> "none", plan |-> <<>>, pre |-> <<>>, out |-> NotRun,
     result |-> "none"]

\* the retry executor of a behaviour that is about another object
IdleRT ==
    rt = NewRetry(RetryConfig(3, {"Exception"}), FALSE, "Exception")

\* ------------------------------------- APIRateLimiter, APICircuitBreaker
\* The substrings the registries look for in an endpoint name.
Keywords ==
    {"price", "history", "search", "instrument", "list", "index", "details",
     "info"}

\* An endpoint name, as far as the registries can tell names apart: the
\* keywords that occur in it, and whether it is written in upper case.
Names ==
    {[words |-> ws, upper |-> u] :
        ws \in {x \in SUBSET Keywords : Cardinality(x) <= MaxKeywords},
        u \in BOOLEAN}

\* a name with no keyword in it, such as "market_watch"
Plain == [words |-> {}, upper |-> FALSE]

\* str.lower()
lower(name) == [name EXCEPT !.upper = FALSE]

\* k in name, for a lower-case literal k
contains(name, k) == ~name.upper /\ k \in name.words

\* d[k] = v on a dict
setitem(d, k, v) == [x \in DOMAIN d \cup {k} |-> IF x = k THEN v ELSE d[x]]

\* APIRateLimiter.__init__: self.endpoint_limits
endpoint_limits ==
    [search |-> [rate |-> 10, capacity |-> 20],
     list |-> [rate |-> 5, capacity |-> 10],
     history |-> [rate |-> 2, capacity |-> 5],
     details |-> [rate |-> 20, capacity |-> 50],
     default |-> [rate |-> 10, capacity |-> 20]]

\* APIRateLimiter.__init__: no limiter yet.  objects are the RateLimiter
\* instances made so far, made[i] the endpoint objects[i] was made for, and
\* limiters maps an endpoint to its place in objects.
NewAPIRateLimiter ==
    [limiters |-> [x \in {} |-> 0], objects |-> <<>>, made |-> <<>>]

\* lines 164-172 of APIRateLimiter.get_limiter: the endpoint type
endpoint_type(endpoint) ==
    IF contains(lower(endpoint), "search") \/ contains(lower(endpoint), "instrument")
    THEN "search"
    ELSE IF contains(lower(endpoint), "list") \/ contains(lower(endpoint), "index")
    THEN "list"
    ELSE IF contains(lower(endpoint), "history") \/ contains(lower(endpoint), "price")
    THEN "history"
    ELSE IF contains(lower(endpoint), "details") \/ contains(lower(endpoint), "info")
    THEN "details"
    ELSE "default"

\* lines 174-175 of APIRateLimiter.get_limiter at time t:
\* self.limiters[endpoint] = RateLimiter(limits['rate'], limits['capacity'])
make_limiter(r, endpoint, t) ==
    LET limits == endpoint_limits[endpoint_type(endpoint)]
        objs == Append(r.objects, NewRateLimiter(limits.rate, limits.capacity, t))
    IN  [r EXCEPT !.objects = objs,
                  !.made = Append(@, endpoint),
                  !.limiters = setitem(@, endpoint, Len(objs))]

\* APIRateLimiter.get_limiter(endpoint), run without interruption at time t:
\* the registry afterwards and the limiter returned
get_limiter(r, endpoint, t) ==
    LET r1 == IF endpoint \notin DOMAIN r.limiters
              THEN make_limiter(r, endpoint, t)
              ELSE r
    IN  [reg |-> r1, limiter |-> r1.limiters[endpoint]]

\* APIRateLimiter.acquire(endpoint, tokens)
APIRateLimiter_acquire(r, endpoint, tokens, t) ==
    LET g == get_limiter(r, endpoint, t)
        a == acquire(g.reg.objects[g.limiter], tokens, t)
    IN  [reg |-> [g.reg EXCEPT !.objects[g.limiter] = a.rl], result |-> a.result]

\* the limiters the dict of the registry holds
tracked_limiters(r) == {r.limiters[e] : e \in DOMAIN r.limiters}

\* APIRateLimiter.get_status() at time t: every limiter of the dict is
\* refilled, then read
APIRateLimiter_get_status(r, t) ==
    LET objs == [i \in DOMAIN r.objects |->
                    IF i \in tracked_limiters(r)
                    THEN refill_tokens(r.objects[i], t)
                    ELSE r.objects[i]]
    IN  [reg |-> [r EXCEPT !.objects = objs],
         status |-> [e \in DOMAIN r.limiters |-> objs[r.limiters[e]]]]

\* APICircuitBreaker.__init__
NewAPICircuitBreaker(base_failure_threshold, base_recovery_timeout) ==
    [circuit_breakers |-> [x \in {} |-> 0], objects |-> <<>>, made |-> <<>>,
     base_failure_threshold |-> base_failure_threshold,
     base_recovery_timeout |-> base_recovery_timeout]

\* lines 165-176 of APICircuitBreaker.get_circuit_breaker: threshold, timeout
breaker_settings(r, endpoint) ==
    IF contains(lower(endpoint), "price") \/ contains(lower(endpoint), "history")
    THEN [category |-> "history",
          threshold |-> r.base_failure_threshold - 1,
          timeout |-> r.base_recovery_timeout]
    ELSE IF contains(lower(endpoint), "search") \/ contains(lower(endpoint), "list")
    THEN [category |-> "list",
          threshold |-> r.base_failure_threshold + 1,
          timeout |-> r.base_recovery_timeout * 2]
    ELSE [category |-> "default",
          threshold |-> r.base_failure_threshold,
          timeout |-> r.base_recovery_timeout]

\* lines 178-183 of APICircuitBreaker.get_circuit_breaker:
\* self.circuit_breakers[endpoint] = CircuitBreaker(threshold, timeout, Exception)
make_circuit_breaker(r, endpoint) ==
    LET c == breaker_settings(r, endpoint)
        objs == Append(r.objects, NewCircuitBreaker(c.threshold, c.timeout))
    IN  [r EXCEPT !.objects = objs,
                  !.made = Append(@, endpoint),
                  !.circuit_breakers = setitem(@, endpoint, Len(objs))]

\* APICircuitBreaker.get_circuit_breaker(endpoint), run without interruption:
\* the registry afterwards and the breaker returned
get_circuit_breaker(r, endpoint) ==
    LET r1 == IF endpoint \notin DOMAIN r.circuit_breakers
              THEN make_circuit_breaker(r, endpoint)
              ELSE r
    IN  [reg |-> r1, breaker |-> r1.circuit_breakers[endpoint]]

\* the breakers the dict of the registry holds
tracked_breakers(r) == {r.circuit_breakers[e] : e \in DOMAIN r.circuit_breakers}

\* CircuitBreaker.get_status() at time t: the snapshot returned
CircuitBreaker_get_status(b, t) ==
    [state |-> b.state, failure_count |-> b.failure_count,
     success_count |-> b.success_count,
     total_failures |-> b.failure_count_total,
     last_failure |-> b.last_failure_time,
     can_attempt_reset |-> can_attempt_reset(b, t)]

\* APICircuitBreaker.get_all_status() at time t
get_all_status(r, t) ==
    [reg |-> r,
     status |-> [e \in DOMAIN r.circuit_breakers |->
                    CircuitBreaker_get_status(r.objects[r.circuit_breakers[e]], t)]]

\* (mutant) reset_all leaves failure_count as it is
APICircuitBreaker_reset_all_keeps_count(r) ==
    [r EXCEPT !.objects = [i \in DOMAIN r.objects |->
                              IF i \in tracked_breakers(r)
                              THEN [r.objects[i] EXCEPT
                                       !.state = CLOSED,
                                       !.last_failure_time = <<>>]
                              ELSE r.objects[i]]]

\* APICircuitBreaker.reset_all()
APICircuitBreaker_reset_all(r) ==
    [r EXCEPT !.objects = [i \in DOMAIN r.objects |->
                              IF i \in tracked_breakers(r)
                              THEN reset_all(r.objects[i])
                              ELSE r.objects[i]]]

NoRegistryEvent ==
    [op |-> "none", endpoint |-> Plain, at |-> 0,
     pre_rl |-> NewAPIRateLimiter, pre_cb |-> NewAPICircuitBreaker(3, 30),
     got |-> 0, result |-> "none"]

\* the registries of a behaviour that is about another object
IdleReg ==
    /\ api_rl = NewAPIRateLimiter
    /\ api_cb = NewAPICircuitBreaker(3, 30)
    /\ rgev = NoRegistryEvent
    /\ endpoints = {}

\* ---------------------------------------------------------------- actions
NoEvent(b) ==
    [op |-> "none", pre |-> b, at |-> 0, result |-> "none", invoked |-> FALSE]

InitCB ==
    /\ \E th \in 0..MaxThreshold, to \in 0..MaxTimeout :
          cb = NewCircuitBreaker(th, to)
    /\ ev = NoEvent(cb)

\* time passes
Tick ==
    /\ now < MaxTime
    /\ now' = now + 1
    /\ UNCHANGED <<nops, cb, ev, pc, frame, tally, rlVars, swVars, rt, regVars>>

\* one whole cb.call(func)
Call ==
    /\ nops < MaxOps
    /\ \E o \in Outcomes :
          LET r == call(cb, o, now)
          IN  /\ cb' = r.cb
              /\ ev' = [op |-> "call", pre |-> cb, at |-> now,
                        result |-> r.result, invoked |-> r.invoked]
    /\ nops' = nops + 1
    /\ UNCHANGED <<now, pc, frame, tally, rlVars, swVars, rt, regVars>>

\* one whole api_cb.reset_all()
ResetAll ==
    /\ nops < MaxOps
    /\ cb' = reset_all(cb)
    /\ ev' = [op |-> "reset_all", pre |-> cb, at |-> now,
              result |-> "returned", invoked |-> FALSE]
    /\ nops' = nops + 1
    /\ UNCHANGED <<now, pc, frame, tally, rlVars, swVars, rt, regVars>>

NoThreads ==
    /\ pc = [t \in Threads |-> "idle"]
    /\ frame = [t \in Threads |-> [tmp |-> 0]]
    /\ tally = [returned |-> 0, counted |-> 0]

\* the limiter of a behaviour that is about the breaker only
IdleRL ==
    /\ rl = NewRateLimiter(10, 20, 0)
    /\ rev = NoLimiterEvent(rl)
    /\ lock = 0
    /\ ledger = NoGrants

Init ==
    /\ now = 0
    /\ nops = 0
    /\ InitCB
    /\ NoThreads
    /\ IdleRL
    /\ IdleSW
    /\ IdleRT
    /\ IdleReg

Next ==
    \/ Tick
    \/ Call
    \/ ResetAll

Spec == Init /\ [][Next]_vars

\* ------------------------------------------------------------------------
\* The circuit breaker under threads.  CircuitBreaker has no lock, so a
\* thread can be preempted between any two reads or writes of an attribute;
\* each action below is one such read or write, named after its source line.
\* ------------------------------------------------------------------------
Goto(t, label) == pc' = [pc EXCEPT ![t] = label]

\* a thread enters cb.call(func)
CallEnter(t) ==
    /\ pc[t] = "idle"
    /\ nops < MaxThreadOps
    /\ nops' = nops + 1
    /\ Goto(t, "call_98")
    /\ UNCHANGED <<now, cb, ev, frame, tally, rlVars, swVars, rt, regVars>>

\* line 98: if self.state == CircuitBreakerState.OPEN
Call_98(t) ==
    /\ pc[t] = "call_98"
    /\ Goto(t, IF cb.state = OPEN THEN "reset_58" ELSE "call_106")
    /\ UNCHANGED <<now, nops, cb, ev, frame, tally, rlVars, swVars, rt, regVars>>

\* line 58: if self.last_failure_time is None: return True
CanAttemptReset_58(t) ==
    /\ pc[t] = "reset_58"
    /\ Goto(t, IF cb.last_failure_time = <<>> THEN "call_101" ELSE "reset_60")
    /\ UNCHANGED <<now, nops, cb, ev, frame, tally, rlVars, swVars, rt, regVars>>

\* line 60: return time.time() - self.last_failure_time >= self.recovery_timeout
\* (a None read here raises TypeError out of call); line 103 raises
\* CircuitBreakerOpenException when the answer is False
CanAttemptReset_60(t) ==
    /\ pc[t] = "reset_60"
    /\ Goto(t, IF cb.last_failure_time = <<>>
               THEN "idle"
               ELSE IF now - cb.last_failure_time[1] >= cb.recovery_timeout
                    THEN "call_101"
                    ELSE "idle")
    /\ UNCHANGED <<now, nops, cb, ev, frame, tally, rlVars, swVars, rt, regVars>>

\* line 101: self.state = CircuitBreakerState.HALF_OPEN
Call_101(t) ==
    /\ pc[t] = "call_101"
    /\ cb' = [cb EXCEPT !.state = HALF_OPEN]
    /\ Goto(t, "call_106")
    /\ UNCHANGED <<now, nops, ev, frame, tally, rlVars, swVars, rt, regVars>>

\* line 106: result = func(*args, **kwargs); an exception that is not an
\* expected_exception leaves call at once
Call_106(t) ==
    /\ pc[t] = "call_106"
    /\ \E o \in Outcomes :
          /\ Goto(t, CASE o = "ok" -> "success_64r"
                       [] o = "expected" -> "failure_72r"
                       [] OTHER -> "idle")
          /\ tally' = CASE o = "ok" -> [tally EXCEPT !.returned = @ + 1]
                        [] o = "expected" -> [tally EXCEPT !.counted = @ + 1]
                        [] OTHER -> tally
    /\ UNCHANGED <<now, nops, cb, ev, frame, rlVars, swVars, rt, regVars>>

\* line 64: self.success_count += 1, the read
RecordSuccess_64r(t) ==
    /\ pc[t] = "success_64r"
    /\ frame' = [frame EXCEPT ![t].tmp = cb.success_count]
    /\ Goto(t, "success_64w")
    /\ UNCHANGED <<now, nops, cb, ev, tally, rlVars, swVars, rt, regVars>>

\* line 64: self.success_count += 1, the write
RecordSuccess_64w(t) ==
    /\ pc[t] = "success_64w"
    /\ cb' = [cb EXCEPT !.success_count = frame[t].tmp + 1]
    /\ Goto(t, "success_65")
    /\ UNCHANGED <<now, nops, ev, frame, tally, rlVars, swVars, rt, regVars>>

\* line 65: if self.state == CircuitBreakerState.HALF_OPEN
RecordSuccess_65(t) ==
    /\ pc[t] = "success_65"
    /\ Goto(t, IF cb.state = HALF_OPEN THEN "success_67" ELSE "idle")
    /\ UNCHANGED <<now, nops, cb, ev, frame, tally, rlVars, swVars, rt, regVars>>

\* line 67: self.state = CircuitBreakerState.CLOSED
RecordSuccess_67(t) ==
    /\ pc[t] = "success_67"
    /\ cb' = [cb EXCEPT !.state = CLOSED]
    /\ Goto(t, "success_68")
    /\ UNCHANGED <<now, nops, ev, frame, tally, rlVars, swVars, rt, regVars>>

\* line 68: self.failure_count = 0
RecordSuccess_68(t) ==
    /\ pc[t] = "success_68"
    /\ cb' = [cb EXCEPT !.failure_count = 0]
    /\ Goto(t, "idle")
    /\ UNCHANGED <<now, nops, ev, frame, tally, rlVars, swVars, rt, regVars>>

\* line 72: self.failure_count += 1, the read
RecordFailure_72r(t) ==
    /\ pc[t] = "failure_72r"
    /\ frame' = [frame EXCEPT ![t].tmp = cb.failure_count]
    /\ Goto(t, "failure_72w")
    /\ UNCHANGED <<now, nops, cb, ev, tally, rlVars, swVars, rt, regVars>>

\* line 72: self.failure_count += 1, the write
RecordFailure_72w(t) ==
    /\ pc[t] = "failure_72w"
    /\ cb' = [cb EXCEPT !.failure_count = frame[t].tmp + 1]
    /\ Goto(t, "failure_73r")
    /\ UNCHANGED <<now, nops, ev, frame, tally, rlVars, swVars, rt, regVars>>

\* line 73: self.failure_count_total += 1, the read
RecordFailure_73r(t) ==
    /\ pc[t] = "failure_73r"
    /\ frame' = [frame EXCEPT ![t].tmp = cb.failure_count_total]
    /\ Goto(t, "failure_73w")
    /\ UNCHANGED <<now, nops, cb, ev, tally, rlVars, swVars, rt, regVars>>

\* line 73: self.failure_count_total += 1, the write
RecordFailure_73w(t) ==
    /\ pc[t] = "failure_73w"
    /\ cb' = [cb EXCEPT !.failure_count_total = frame[t].tmp + 1]
    /\ Goto(t, "failure_74")
    /\ UNCHANGED <<now, nops, ev, frame, tally, rlVars, swVars, rt, regVars>>

\* line 74: self.last_failure_time = time.time()
RecordFailure_74(t) ==
    /\ pc[t] = "failure_74"
    /\ cb' = [cb EXCEPT !.last_failure_time = <<now>>]
    /\ Goto(t, "failure_76")
    /\ UNCHANGED <<now, nops, ev, frame, tally, rlVars, swVars, rt, regVars>>

\* line 76: if self.state == CircuitBreakerState.HALF_OPEN
RecordFailure_76(t) ==
    /\ pc[t] = "failure_76"
    /\ Goto(t, IF cb.state = HALF_OPEN THEN "failure_78" ELSE "failure_79")
    /\ UNCHANGED <<now, nops, cb, ev, frame, tally, rlVars, swVars, rt, regVars>>

\* line 78: self.state = CircuitBreakerState.OPEN
RecordFailure_78(t) ==
    /\ pc[t] = "failure_78"
    /\ cb' = [cb EXCEPT !.state = OPEN]
    /\ Goto(t, "idle")
    /\ UNCHANGED <<now, nops, ev, frame, tally, rlVars, swVars, rt, regVars>>

\* line 79: elif self.failure_count >= self.failure_threshold
RecordFailure_79(t) ==
    /\ pc[t] = "failure_79"
    /\ Goto(t, IF cb.failure_count >= cb.failure_threshold
               THEN "failure_81" ELSE "idle")
    /\ UNCHANGED <<now, nops, cb, ev, frame, tally, rlVars, swVars, rt, regVars>>

\* line 81: self.state = CircuitBreakerState.OPEN
RecordFailure_81(t) ==
    /\ pc[t] = "failure_81"
    /\ cb' = [cb EXCEPT !.state = OPEN]
    /\ Goto(t, "idle")
    /\ UNCHANGED <<now, nops, ev, frame, tally, rlVars, swVars, rt, regVars>>

\* a thread enters api_cb.reset_all() of the registry that tracks the breaker
ResetAllEnter(t) ==
    /\ pc[t] = "idle"
    /\ nops < MaxThreadOps
    /\ nops' = nops + 1
    /\ Goto(t, "reset_197")
    /\ UNCHANGED <<now, cb, ev, frame, tally, rlVars, swVars, rt, regVars>>

\* line 197: cb.state = CircuitBreakerState.CLOSED
ResetAll_197(t) ==
    /\ pc[t] = "reset_197"
    /\ cb' = [cb EXCEPT !.state = CLOSED]
    /\ Goto(t, "reset_198")
    /\ UNCHANGED <<now, nops, ev, frame, tally, rlVars, swVars, rt, regVars>>

\* line 198: cb.failure_count = 0
ResetAll_198(t) ==
    /\ pc[t] = "reset_198"
    /\ cb' = [cb EXCEPT !.failure_count = 0]
    /\ Goto(t, "reset_199")
    /\ UNCHANGED <<now, nops, ev, frame, tally, rlVars, swVars, rt, regVars>>

\* line 199: cb.last_failure_time = None
ResetAll_199(t) ==
    /\ pc[t] = "reset_199"
    /\ cb' = [cb EXCEPT !.last_failure_time = <<>>]
    /\ Goto(t, "idle")
    /\ UNCHANGED <<now, nops, ev, frame, tally, rlVars, swVars, rt, regVars>>

NextCBThreads ==
    \/ Tick
    \/ \E t \in Threads :
          \/ CallEnter(t)
          \/ Call_98(t)
          \/ CanAttemptReset_58(t)
          \/ CanAttemptReset_60(t)
          \/ Call_101(t)
          \/ Call_106(t)
          \/ RecordSuccess_64r(t)
          \/ RecordSuccess_64w(t)
          \/ RecordSuccess_65(t)
          \/ RecordSuccess_67(t)
          \/ RecordSuccess_68(t)
          \/ RecordFailure_72r(t)
          \/ RecordFailure_72w(t)
          \/ RecordFailure_73r(t)
          \/ RecordFailure_73w(t)
          \/ RecordFailure_74(t)
          \/ RecordFailure_76(t)
          \/ RecordFailure_78(t)
          \/ RecordFailure_79(t)
          \/ RecordFailure_81(t)
          \/ ResetAllEnter(t)
          \/ ResetAll_197(t)
          \/ ResetAll_198(t)
          \/ ResetAll_199(t)

SpecCBThreads == Init /\ [][NextCBThreads]_vars

\* ------------------------------------------------------------------------
\* The rate limiter called from one thread: every method runs to its end
\* before the next one starts.
\* ------------------------------------------------------------------------
InitRL ==
    /\ \E r \in 0..MaxRate, c \in 0..MaxCapacity : rl = NewRateLimiter(r, c, 0)
    /\ rev = NoLimiterEvent(rl)
    /\ lock = 0
    /\ ledger = NoGrants

\* the breaker of a behaviour that is about the limiter only
IdleCB ==
    /\ cb = NewCircuitBreaker(5, 60)
    /\ ev = NoEvent(cb)

InitRLSpec ==
    /\ now = 0
    /\ nops = 0
    /\ IdleCB
    /\ NoThreads
    /\ InitRL
    /\ IdleSW
    /\ IdleRT
    /\ IdleReg

\* one whole limiter.acquire(n)
Acquire ==
    /\ nops < MaxOps
    /\ \E n \in Requests :
          LET r == acquire(rl, n, now)
          IN  /\ rl' = r.rl
              /\ rev' = [op |-> "acquire", n |-> n, pre |-> rl, at |-> now,
                         result |-> r.result, drained |-> ledger.drained]
              /\ ledger' = Granted(ledger, n, r.result, r.rl.tokens, now)
    /\ nops' = nops + 1
    /\ UNCHANGED <<now, cb, ev, pc, frame, tally, lock, swVars, rt, regVars>>

\* APIRateLimiter.get_status(): limiter._refill_tokens() and a read
GetStatusRL ==
    /\ nops < MaxOps
    /\ rl' = refill_tokens(rl, now)
    /\ rev' = [op |-> "get_status", n |-> 0, pre |-> rl, at |-> now,
               result |-> TRUE, drained |-> ledger.drained]
    /\ nops' = nops + 1
    /\ UNCHANGED <<now, cb, ev, pc, frame, tally, lock, ledger, swVars, rt, regVars>>

NextRL ==
    \/ Tick
    \/ Acquire
    \/ GetStatusRL

SpecRL == InitRLSpec /\ [][NextRL]_vars

\* ------------------------------------------------------------------------
\* The rate limiter under threads.  tokens and last_update are written only
\* with RateLimiter.lock held, but _refill_tokens reads the clock and
\* last_update before it takes the lock, and wait_for_tokens reads tokens
\* without it.
\* ------------------------------------------------------------------------
\* the local variables of a thread that is in no method of the limiter
NoLocals ==
    [op |-> "none", tokens |-> 0, now |-> 0, tokens_to_add |-> 0,
     wait_need |-> 0, wait_from |-> 0]

InitRLThreads ==
    /\ now = 0
    /\ nops = 0
    /\ IdleCB
    /\ InitRL
    /\ pc = [t \in Threads |-> "idle"]
    /\ frame = [t \in Threads |-> NoLocals]
    /\ tally = [returned |-> 0, counted |-> 0]
    /\ IdleSW
    /\ IdleRT
    /\ IdleReg

\* thread t goes on at label with the locals f; a return ("idle") drops them
Jump(t, label, f) ==
    /\ pc' = [pc EXCEPT ![t] = label]
    /\ frame' = [frame EXCEPT ![t] = IF label = "idle" THEN NoLocals ELSE f]

\* a thread enters limiter.acquire(n)
AcquireEnter(t) ==
    /\ pc[t] = "idle"
    /\ nops < MaxThreadOps
    /\ nops' = nops + 1
    /\ \E n \in Requests :
          Jump(t, "acquire_49", [NoLocals EXCEPT !.op = "acquire", !.tokens = n])
    /\ UNCHANGED <<now, cbVars, rlVars, swVars, rt, regVars>>

\* a thread enters limiter.wait_for_tokens(n)
WaitEnter(t) ==
    /\ pc[t] = "idle"
    /\ nops < MaxThreadOps
    /\ nops' = nops + 1
    /\ \E n \in Requests :
          Jump(t, "wait_70", [NoLocals EXCEPT !.op = "wait_for_tokens", !.tokens = n])
    /\ UNCHANGED <<now, cbVars, rlVars, swVars, rt, regVars>>

\* a thread enters APIRateLimiter.get_status(), which refills the limiter
GetStatusEnter(t) ==
    /\ pc[t] = "idle"
    /\ nops < MaxThreadOps
    /\ nops' = nops + 1
    /\ Jump(t, "refill_31", [NoLocals EXCEPT !.op = "get_status"])
    /\ UNCHANGED <<now, cbVars, rlVars, swVars, rt, regVars>>

\* line 70: if tokens <= 0: return 0.0
Wait_70(t) ==
    /\ pc[t] = "wait_70"
    /\ Jump(t, IF frame[t].tokens <= 0 THEN "idle" ELSE "acquire_49", frame[t])
    /\ UNCHANGED <<now, nops, cbVars, rlVars, swVars, rt, regVars>>

\* line 49: if tokens <= 0: return False
Acquire_49(t) ==
    /\ pc[t] = "acquire_49"
    /\ Jump(t, IF frame[t].tokens <= 0 THEN "idle" ELSE "refill_31", frame[t])
    /\ UNCHANGED <<now, nops, cbVars, rlVars, swVars, rt, regVars>>

\* line 31: now = time.time()
Refill_31(t) ==
    /\ pc[t] = "refill_31"
    /\ Jump(t, "refill_32", [frame[t] EXCEPT !.now = now])
    /\ UNCHANGED <<now, nops, cbVars, rlVars, swVars, rt, regVars>>

\* lines 32-33: elapsed = now - self.last_update; tokens_to_add = elapsed * self.rate
Refill_32(t) ==
    /\ pc[t] = "refill_32"
    /\ Jump(t, "refill_36",
            [frame[t] EXCEPT
               !.tokens_to_add = (frame[t].now - rl.last_update) * rl.rate])
    /\ UNCHANGED <<now, nops, cbVars, rlVars, swVars, rt, regVars>>

\* lines 35-36: with self.lock: self.tokens = min(self.capacity, self.tokens + tokens_to_add)
Refill_36(t) ==
    /\ pc[t] = "refill_36"
    /\ lock = 0
    /\ lock' = t
    /\ rl' = [rl EXCEPT !.tokens = Min(rl.capacity, @ + frame[t].tokens_to_add)]
    /\ Jump(t, "refill_37", frame[t])
    /\ UNCHANGED <<now, nops, cbVars, rev, ledger, swVars, rt, regVars>>

\* line 37: self.last_update = now, and the lock is released
Refill_37(t) ==
    /\ pc[t] = "refill_37"
    /\ lock = t
    /\ lock' = 0
    /\ rl' = [rl EXCEPT !.last_update = frame[t].now]
    /\ Jump(t, IF frame[t].op = "get_status" THEN "idle" ELSE "acquire_54",
            [frame[t] EXCEPT !.now = 0, !.tokens_to_add = 0])
    /\ UNCHANGED <<now, nops, cbVars, rev, ledger, swVars, rt, regVars>>

\* (mutant) a granted acquire takes one token, whatever was asked for
Acquire_54_takes_one(t) ==
    /\ pc[t] = "acquire_54"
    /\ lock = 0
    /\ IF rl.tokens >= frame[t].tokens
       THEN /\ rl' = [rl EXCEPT !.tokens = @ - 1]
            /\ ledger' = Granted(ledger, frame[t].tokens, TRUE, rl'.tokens, now)
            /\ Jump(t, "idle", frame[t])
       ELSE /\ rl' = rl
            /\ ledger' = ledger
            /\ Jump(t, IF frame[t].op = "wait_for_tokens" THEN "wait_77" ELSE "idle",
                    frame[t])
    /\ UNCHANGED <<now, nops, cbVars, rev, lock, swVars, rt, regVars>>

\* lines 54-58: with self.lock: if self.tokens >= tokens: self.tokens -= tokens;
\* return True / return False.  In wait_for_tokens (line 75) False goes on
\* to the sleep and True returns.
Acquire_54(t) ==
    /\ pc[t] = "acquire_54"
    /\ lock = 0
    /\ IF rl.tokens >= frame[t].tokens
       THEN /\ rl' = [rl EXCEPT !.tokens = @ - frame[t].tokens]
            /\ ledger' = Granted(ledger, frame[t].tokens, TRUE, rl'.tokens, now)
            /\ Jump(t, "idle", frame[t])
       ELSE /\ rl' = rl
            /\ ledger' = ledger
            /\ Jump(t, IF frame[t].op = "wait_for_tokens" THEN "wait_77" ELSE "idle",
                    frame[t])
    /\ UNCHANGED <<now, nops, cbVars, rev, lock, swVars, rt, regVars>>

\* lines 77-80: wait_time = max(0.001, (tokens - self.tokens) / self.rate), or
\* 1.0 when rate is 0; kept as the number of tokens still needed
Wait_77(t) ==
    /\ pc[t] = "wait_77"
    /\ Jump(t, "wait_81",
            [frame[t] EXCEPT !.wait_need = frame[t].tokens - rl.tokens,
                             !.wait_from = now])
    /\ UNCHANGED <<now, nops, cbVars, rlVars, swVars, rt, regVars>>

\* line 81: time.sleep(wait_time) returns once wait_time has passed (0.001 is
\* less than one clock unit)
Wait_81(t) ==
    /\ pc[t] = "wait_81"
    /\ IF rl.rate > 0
       THEN (now - frame[t].wait_from) * rl.rate >= frame[t].wait_need
       ELSE now - frame[t].wait_from >= 1
    /\ Jump(t, "acquire_49", [frame[t] EXCEPT !.wait_need = 0, !.wait_from = 0])
    /\ UNCHANGED <<now, nops, cbVars, rlVars, swVars, rt, regVars>>

NextRLThreads ==
    \/ Tick
    \/ \E t \in Threads :
          \/ AcquireEnter(t)
          \/ WaitEnter(t)
          \/ GetStatusEnter(t)
          \/ Wait_70(t)
          \/ Acquire_49(t)
          \/ Refill_31(t)
          \/ Refill_32(t)
          \/ Refill_36(t)
          \/ Refill_37(t)
          \/ Acquire_54(t)
          \/ Wait_77(t)
          \/ Wait_81(t)

SpecRLThreads == InitRLThreads /\ [][NextRLThreads]_vars

\* ------------------------------------------------------------------------
\* The sliding window called from one thread: every acquire() runs to its
\* end before the next one starts.
\* ------------------------------------------------------------------------
InitSW ==
    /\ \E n \in 0..MaxRequests, w \in 0..MaxWindow :
          sw = NewSlidingWindowRateLimiter(n, w)
    /\ sev = NoWindowEvent(sw)
    /\ swlock = 0
    /\ admitted = <<>>

InitSWSpec ==
    /\ now = 0
    /\ nops = 0
    /\ IdleCB
    /\ NoThreads
    /\ IdleRL
    /\ InitSW
    /\ IdleRT
    /\ IdleReg

\* one whole window.acquire()
AcquireSW ==
    /\ nops < MaxOps
    /\ LET r == SlidingWindow_acquire(sw, now)
       IN  /\ sw' = r.sw
           /\ sev' = [op |-> "acquire", pre |-> sw, at |-> now, stamp |-> now,
                      result |-> r.result, post |-> r.sw.requests]
           /\ admitted' = IF r.result THEN Append(admitted, now) ELSE admitted
    /\ nops' = nops + 1
    /\ UNCHANGED <<now, cbVars, pc, frame, rlVars, swlock, rt, regVars>>

NextSW ==
    \/ Tick
    \/ AcquireSW

SpecSW == InitSWSpec /\ [][NextSW]_vars

\* ------------------------------------------------------------------------
\* The sliding window under threads.  requests is read and written only with
\* SlidingWindowRateLimiter.lock held, but acquire() reads the clock (line
\* 110) before it takes the lock.
\* ------------------------------------------------------------------------
InitSWThreads ==
    /\ now = 0
    /\ nops = 0
    /\ IdleCB
    /\ IdleRL
    /\ InitSW
    /\ IdleRT
    /\ IdleReg
    /\ pc = [t \in Threads |-> "idle"]
    /\ frame = [t \in Threads |-> NoLocals]
    /\ tally = [returned |-> 0, counted |-> 0]

\* a thread enters window.acquire()
AcquireSWEnter(t) ==
    /\ pc[t] = "idle"
    /\ nops < MaxThreadOps
    /\ nops' = nops + 1
    /\ Jump(t, "acquire_110", [NoLocals EXCEPT !.op = "acquire"])
    /\ UNCHANGED <<now, cbVars, rlVars, swVars, rt, regVars>>

\* line 110: now = time.time()
AcquireSW_110(t) ==
    /\ pc[t] = "acquire_110"
    /\ Jump(t, "acquire_112", [frame[t] EXCEPT !.now = now])
    /\ UNCHANGED <<now, nops, cbVars, rlVars, swVars, rt, regVars>>

\* line 112: with self.lock
AcquireSW_112(t) ==
    /\ pc[t] = "acquire_112"
    /\ swlock = 0
    /\ swlock' = t
    /\ Jump(t, "acquire_114", frame[t])
    /\ UNCHANGED <<now, nops, cbVars, rlVars, sw, sev, admitted, rt, regVars>>

\* lines 114-115: one turn of the while loop
AcquireSW_114(t) ==
    /\ pc[t] = "acquire_114"
    /\ swlock = t
    /\ IF sw.requests # <<>> /\ frame[t].now - Head(sw.requests) > sw.window_seconds
       THEN /\ sw' = [sw EXCEPT !.requests = Tail(@)]
            /\ Jump(t, "acquire_114", frame[t])
       ELSE /\ sw' = sw
            /\ Jump(t, "acquire_118", frame[t])
    /\ UNCHANGED <<now, nops, cbVars, rlVars, sev, swlock, admitted, rt, regVars>>

\* lines 118-122: append and return True, or return False; the lock is
\* released
AcquireSW_118(t) ==
    /\ pc[t] = "acquire_118"
    /\ swlock = t
    /\ swlock' = 0
    /\ LET r == admit(sw, sw.requests, frame[t].now)
       IN  /\ sw' = r.sw
           /\ sev' = [op |-> "acquire", pre |-> sw, at |-> now,
                      stamp |-> frame[t].now, result |-> r.result,
                      post |-> r.sw.requests]
           /\ admitted' = IF r.result THEN Append(admitted, now) ELSE admitted
    /\ Jump(t, "idle", frame[t])
    /\ UNCHANGED <<now, nops, cbVars, rlVars, rt, regVars>>

NextSWThreads ==
    \/ Tick
    \/ \E t \in Threads :
          \/ AcquireSWEnter(t)
          \/ AcquireSW_110(t)
          \/ AcquireSW_112(t)
          \/ AcquireSW_114(t)
          \/ AcquireSW_118(t)

SpecSWThreads == InitSWThreads /\ [][NextSWThreads]_vars

\* ------------------------------------------------------------------------
\* The retry executor: ExponentialBackoffRetry (circuit_breaker is None) or
\* CircuitBreakerAwareRetry on the breaker cb.  One step is one whole
\* execute(), its attempts and its sleeps included.
\* ------------------------------------------------------------------------
\* a CircuitBreakerAwareRetry on a breaker of either kind of
\* expected_exception, or an executor without a breaker
InitRT ==
    \E m \in 0..MaxAttempts, types \in {{"Exception"}, {"ConnectionError"}} :
       \/ /\ \E th \in 0..MaxThreshold, to \in {0, MaxTimeout} :
                cb = NewCircuitBreaker(th, to)
          /\ ev = NoEvent(cb)
          /\ \E expected_exception \in {"Exception", "ConnectionError"} :
                rt = [NewRetry(RetryConfig(m, types), TRUE, expected_exception)
                         EXCEPT !.pre = cb]
       \/ /\ IdleCB
          /\ rt = [NewRetry(RetryConfig(m, types), FALSE, "Exception")
                      EXCEPT !.pre = cb]

InitRetrySpec ==
    /\ now = 0
    /\ nops = 0
    /\ NoThreads
    /\ IdleRL
    /\ IdleSW
    /\ InitRT
    /\ IdleReg

\* one whole retry.execute(func): lines 166-173 of
\* CircuitBreakerAwareRetry.execute
Execute ==
    /\ nops < MaxExecutes
    /\ \E plan \in {p \in Plans : Len(p) <= rt.config.max_attempts + 1} :
          IF rt.circuit_breaker
          THEN LET r == retry_under_breaker(rt.config, cb, rt.expected_exception,
                                            plan, now)
               IN  /\ cb' = r.cb
                   /\ rt' = [rt EXCEPT !.op = "execute", !.plan = plan,
                                       !.pre = cb, !.out = r.out,
                                       !.result = r.result]
          ELSE LET out == execute(rt.config, plan)
               IN  /\ cb' = cb
                   /\ rt' = [rt EXCEPT !.op = "execute", !.plan = plan,
                                       !.pre = cb, !.out = out,
                                       !.result = out.result]
    /\ nops' = nops + 1
    /\ UNCHANGED <<now, ev, tally, pc, frame, rlVars, swVars, regVars>>

NextRetry ==
    \/ Tick
    \/ Execute

SpecRetry == InitRetrySpec /\ [][NextRetry]_vars

\* ------------------------------------------------------------------------
\* The two registries called from one thread: every method runs to its end
\* before the next one starts.  The callers use an endpoint name with at
\* most one keyword in it and the name without a keyword.
\* ------------------------------------------------------------------------
\* APICircuitBreaker(base_failure_threshold, base_recovery_timeout)
InitAPICircuitBreaker ==
    /\ \E th \in 1..(MaxThreshold + 1) : api_cb = NewAPICircuitBreaker(th, 1)
    /\ rgev = [NoRegistryEvent EXCEPT !.pre_cb = api_cb]

SimpleNames == {a \in Names : Cardinality(a.words) <= 1 /\ ~a.upper}

InitRegistrySpec ==
    /\ now = 0
    /\ nops = 0
    /\ IdleCB
    /\ NoThreads
    /\ IdleRL
    /\ IdleSW
    /\ IdleRT
    /\ \E a \in SimpleNames : endpoints = {a, Plain}
    /\ api_rl = NewAPIRateLimiter
    /\ InitAPICircuitBreaker

\* the record of a completed registry operation
RegistryEvent(op, endpoint, got, result) ==
    [op |-> op, endpoint |-> endpoint, at |-> now,
     pre_rl |-> api_rl, pre_cb |-> api_cb, got |-> got, result |-> result]

\* one whole api_rate_limiter.get_limiter(endpoint)
GetLimiter ==
    /\ nops < MaxRegistryOps
    /\ \E e \in endpoints :
          LET g == get_limiter(api_rl, e, now)
          IN  /\ api_rl' = g.reg
              /\ rgev' = RegistryEvent("get_limiter", e, g.limiter, "returned")
    /\ nops' = nops + 1
    /\ UNCHANGED <<now, cbVars, pc, frame, rlVars, swVars, rt, api_cb, endpoints>>

\* one whole api_rate_limiter.acquire(endpoint)
AcquireAPI ==
    /\ nops < MaxRegistryOps
    /\ \E e \in endpoints :
          LET a == APIRateLimiter_acquire(api_rl, e, 1, now)
          IN  /\ api_rl' = a.reg
              /\ rgev' = RegistryEvent("acquire", e, a.reg.limiters[e],
                                       IF a.result THEN "True" ELSE "False")
    /\ nops' = nops + 1
    /\ UNCHANGED <<now, cbVars, pc, frame, rlVars, swVars, rt, api_cb, endpoints>>

\* one whole api_rate_limiter.get_status()
GetStatusAPI ==
    /\ nops < MaxRegistryOps
    /\ api_rl' = APIRateLimiter_get_status(api_rl, now).reg
    /\ rgev' = RegistryEvent("APIRateLimiter.get_status", Plain, 0, "returned")
    /\ nops' = nops + 1
    /\ UNCHANGED <<now, cbVars, pc, frame, rlVars, swVars, rt, api_cb, endpoints>>

\* one whole api_circuit_breaker.get_circuit_breaker(endpoint)
GetCircuitBreaker ==
    /\ nops < MaxRegistryOps
    /\ \E e \in endpoints :
          LET g == get_circuit_breaker(api_cb, e)
          IN  /\ api_cb' = g.reg
              /\ rgev' = RegistryEvent("get_circuit_breaker", e, g.breaker,
                                       "returned")
    /\ nops' = nops + 1
    /\ UNCHANGED <<now, cbVars, pc, frame, rlVars, swVars, rt, api_rl, endpoints>>

\* one whole api_circuit_breaker.get_circuit_breaker(endpoint).call(func);
\* expected_exception is Exception
CallAPI ==
    /\ nops < MaxRegistryOps
    /\ \E e \in endpoints, o \in {"ok", "expected"} :
          LET g == get_circuit_breaker(api_cb, e)
              r == call(g.reg.objects[g.breaker], o, now)
          IN  /\ api_cb' = [g.reg EXCEPT !.objects[g.breaker] = r.cb]
              /\ rgev' = RegistryEvent("call", e, g.breaker, r.result)
    /\ nops' = nops + 1
    /\ UNCHANGED <<now, cbVars, pc, frame, rlVars, swVars, rt, api_rl, endpoints>>

\* one whole get_status() on a breaker of the registry
GetStatusCB ==
    /\ nops < MaxRegistryOps
    /\ \E e \in DOMAIN api_cb.circuit_breakers :
          LET s == CircuitBreaker_get_status(
                       api_cb.objects[api_cb.circuit_breakers[e]], now)
          IN  rgev' = RegistryEvent("CircuitBreaker.get_status", e,
                                    api_cb.circuit_breakers[e], s.state)
    /\ nops' = nops + 1
    /\ UNCHANGED <<now, cbVars, pc, frame, rlVars, swVars, rt, api_rl, api_cb,
                   endpoints>>

\* one whole api_circuit_breaker.get_all_status()
GetAllStatus ==
    /\ nops < MaxRegistryOps
    /\ api_cb' = get_all_status(api_cb, now).reg
    /\ rgev' = RegistryEvent("get_all_status", Plain, 0, "returned")
    /\ nops' = nops + 1
    /\ UNCHANGED <<now, cbVars, pc, frame, rlVars, swVars, rt, api_rl, endpoints>>

\* one whole api_circuit_breaker.reset_all()
ResetAllAPI ==
    /\ nops < MaxRegistryOps
    /\ api_cb' = APICircuitBreaker_reset_all(api_cb)
    /\ rgev' = RegistryEvent("reset_all", Plain, 0, "returned")
    /\ nops' = nops + 1
    /\ UNCHANGED <<now, cbVars, pc, frame, rlVars, swVars, rt, api_rl, endpoints>>

\* time passes between two operations on the registries
TickReg ==
    /\ nops < MaxRegistryOps
    /\ now < MaxTime
    /\ now' = now + 1
    /\ nops' = nops + 1
    /\ UNCHANGED <<cbVars, pc, frame, rlVars, swVars, rt, regVars>>

NextRegistry ==
    \/ TickReg
    \/ GetLimiter
    \/ AcquireAPI
    \/ GetStatusAPI
    \/ GetCircuitBreaker
    \/ CallAPI
    \/ GetStatusCB
    \/ GetAllStatus
    \/ ResetAllAPI

SpecRegistry == InitRegistrySpec /\ [][NextRegistry]_vars

\* ------------------------------------------------------------------------
\* The categories of the registries: get_limiter and get_circuit_breaker
\* on any endpoint name.
\* ------------------------------------------------------------------------
InitCategories ==
    /\ now = 0
    /\ nops = 0
    /\ IdleCB
    /\ NoThreads
    /\ IdleRL
    /\ IdleSW
    /\ IdleRT
    /\ \E a \in Names : endpoints = {a}
    /\ api_rl = NewAPIRateLimiter
    /\ InitAPICircuitBreaker

NextCategories ==
    \/ GetLimiter
    \/ GetCircuitBreaker

SpecCategories == InitCategories /\ [][NextCategories]_vars

\* ------------------------------------------------------------------------
\* The registries under threads.  Neither registry has a lock: a thread can
\* be preempted between the membership test, the assignment to the dict and
\* the read that get_limiter and get_circuit_breaker return.
\* ------------------------------------------------------------------------
\* the locals of a thread that is in no method of a registry
NoLookup == [endpoint |-> Plain]

InitRegThreads ==
    /\ now = 0
    /\ nops = 0
    /\ IdleCB
    /\ pc = [t \in Threads |-> "idle"]
    /\ frame = [t \in Threads |-> NoLookup]
    /\ tally = [returned |-> 0, counted |-> 0]
    /\ IdleRL
    /\ IdleSW
    /\ IdleRT
    /\ \E a \in SimpleNames : endpoints = {a}
    /\ api_rl = NewAPIRateLimiter
    /\ InitAPICircuitBreaker

\* thread t goes on at label in a lookup of endpoint e
Lookup(t, label, e) ==
    /\ pc' = [pc EXCEPT ![t] = label]
    /\ frame' = [frame EXCEPT ![t] = IF label = "idle" THEN NoLookup
                                     ELSE [endpoint |-> e]]

\* a thread enters api_rate_limiter.get_limiter(endpoint)
GetLimiterEnter(t) ==
    /\ pc[t] = "idle"
    /\ nops < MaxThreadOps
    /\ nops' = nops + 1
    /\ \E e \in endpoints : Lookup(t, "limiter_162", e)
    /\ UNCHANGED <<now, cbVars, rlVars, swVars, rt, regVars>>

\* line 162: if endpoint not in self.limiters
GetLimiter_162(t) ==
    /\ pc[t] = "limiter_162"
    /\ Lookup(t, IF frame[t].endpoint \notin DOMAIN api_rl.limiters
                 THEN "limiter_175" ELSE "limiter_177", frame[t].endpoint)
    /\ UNCHANGED <<now, nops, cbVars, rlVars, swVars, rt, regVars>>

\* lines 164-175: self.limiters[endpoint] = RateLimiter(...)
GetLimiter_175(t) ==
    /\ pc[t] = "limiter_175"
    /\ api_rl' = make_limiter(api_rl, frame[t].endpoint, now)
    /\ Lookup(t, "limiter_177", frame[t].endpoint)
    /\ UNCHANGED <<now, nops, cbVars, rlVars, swVars, rt, api_cb, rgev, endpoints>>

\* line 177: return self.limiters[endpoint]
GetLimiter_177(t) ==
    /\ pc[t] = "limiter_177"
    /\ rgev' = RegistryEvent("get_limiter", frame[t].endpoint,
                             api_rl.limiters[frame[t].endpoint], "returned")
    /\ Lookup(t, "idle", frame[t].endpoint)
    /\ UNCHANGED <<now, nops, cbVars, rlVars, swVars, rt, api_rl, api_cb, endpoints>>

\* a thread enters api_circuit_breaker.get_circuit_breaker(endpoint)
GetCircuitBreakerEnter(t) ==
    /\ pc[t] = "idle"
    /\ nops < MaxThreadOps
    /\ nops' = nops + 1
    /\ \E e \in endpoints : Lookup(t, "breaker_164", e)
    /\ UNCHANGED <<now, cbVars, rlVars, swVars, rt, regVars>>

\* line 164: if endpoint not in self.circuit_breakers
GetCircuitBreaker_164(t) ==
    /\ pc[t] = "breaker_164"
    /\ Lookup(t, IF frame[t].endpoint \notin DOMAIN api_cb.circuit_breakers
                 THEN "breaker_178" ELSE "breaker_185", frame[t].endpoint)
    /\ UNCHANGED <<now, nops, cbVars, rlVars, swVars, rt, regVars>>

\* lines 165-183: self.circuit_breakers[endpoint] = CircuitBreaker(...)
GetCircuitBreaker_178(t) ==
    /\ pc[t] = "breaker_178"
    /\ api_cb' = make_circuit_breaker(api_cb, frame[t].endpoint)
    /\ Lookup(t, "breaker_185", frame[t].endpoint)
    /\ UNCHANGED <<now, nops, cbVars, rlVars, swVars, rt, api_rl, rgev, endpoints>>

\* line 185: return self.circuit_breakers[endpoint]
GetCircuitBreaker_185(t) ==
    /\ pc[t] = "breaker_185"
    /\ rgev' = RegistryEvent("get_circuit_breaker", frame[t].endpoint,
                             api_cb.circuit_breakers[frame[t].endpoint],
                             "returned")
    /\ Lookup(t, "idle", frame[t].endpoint)
    /\ UNCHANGED <<now, nops, cbVars, rlVars, swVars, rt, api_rl, api_cb, endpoints>>

NextRegThreads ==
    \E t \in Threads :
          \/ GetLimiterEnter(t)
          \/ GetLimiter_162(t)
          \/ GetLimiter_175(t)
          \/ GetLimiter_177(t)
          \/ GetCircuitBreakerEnter(t)
          \/ GetCircuitBreaker_164(t)
          \/ GetCircuitBreaker_178(t)
          \/ GetCircuitBreaker_185(t)

SpecRegThreads == InitRegThreads /\ [][NextRegThreads]_vars

\* ------------------------------------------------------------------------
\* wait_for_tokens with no competing caller: one thread calls acquire() and
\* wait_for_tokens(), one call after the other.  The clock runs to MaxTime,
\* and on while the caller sleeps: a sleep that starts by MaxTime is over
\* after at most MaxCapacity units when rate >= 1.
\* ------------------------------------------------------------------------
Caller == CHOOSE t \in Threads : TRUE

\* time passes
TickWait ==
    /\ \/ now < MaxTime
       \/ now < MaxTime + MaxCapacity /\ pc[Caller] = "wait_81"
    /\ now' = now + 1
    /\ UNCHANGED <<nops, cbVars, pc, frame, rlVars, swVars, rt, regVars>>

\* the caller makes one whole limiter.acquire(n)
AcquireAlone ==
    /\ pc[Caller] = "idle"
    /\ now <= MaxTime
    /\ nops < MaxWaitCalls
    /\ Acquire

\* the caller enters limiter.wait_for_tokens(n)
WaitAlone ==
    /\ pc[Caller] = "idle"
    /\ now <= MaxTime
    /\ nops < MaxWaitCalls
    /\ nops' = nops + 1
    /\ \E n \in Requests :
          /\ Jump(Caller, "wait_70",
                  [NoLocals EXCEPT !.op = "wait_for_tokens", !.tokens = n])
          /\ rev' = [op |-> "wait_for_tokens", n |-> n, pre |-> rl, at |-> now,
                     result |-> FALSE, drained |-> ledger.drained,
                     granted |-> ledger.granted]
    /\ UNCHANGED <<now, cbVars, rl, lock, ledger, swVars, rt, regVars>>

\* the next line of the call the caller is in
CallerStep ==
    \/ Wait_70(Caller)
    \/ Acquire_49(Caller)
    \/ Refill_31(Caller)
    \/ Refill_32(Caller)
    \/ Refill_36(Caller)
    \/ Refill_37(Caller)
    \/ Acquire_54(Caller)
    \/ Wait_77(Caller)
    \/ Wait_81(Caller)

NextWait ==
    \/ TickWait
    \/ AcquireAlone
    \/ WaitAlone
    \/ CallerStep

SpecWait == InitRLThreads /\ [][NextWait]_vars

\* The thread that is in wait_for_tokens keeps running, and time passes.
SpecWaitLive == SpecWait /\ WF_vars(CallerStep) /\ WF_vars(TickWait)

\* ------------------------------------------------------------- properties
\* the last operation was a call() that found the breaker OPEN
CallOnOpen == ev.op = "call" /\ ev.pre.state = OPEN /\ ev.pre.last_failure_time # <<>>

\* ... before recovery_timeout had elapsed since last_failure_time
CallBeforeTimeout ==
    /\ CallOnOpen
    /\ ev.at - ev.pre.last_failure_time[1] < ev.pre.recovery_timeout

\* ... once recovery_timeout had elapsed since last_failure_time (the probe)
ProbeCall ==
    /\ CallOnOpen
    /\ ev.at - ev.pre.last_failure_time[1] >= ev.pre.recovery_timeout

\* C1: a call() made while the breaker is OPEN and less than recovery_timeout
\* after last_failure_time raises CircuitBreakerOpenException, does not invoke
\* the function and leaves every attribute of the breaker as it was.
C1_FailFast ==
    CallBeforeTimeout =>
        /\ ev.result = "CircuitBreakerOpenException"
        /\ ~ev.invoked
        /\ cb = ev.pre

C1_Witness ==
    /\ CallBeforeTimeout
    /\ ev.result = "CircuitBreakerOpenException"
    /\ ev.pre.recovery_timeout <= ev.at

\* C2: for every threshold T >= 0, a counted failure that leaves
\* failure_count >= T leaves the breaker OPEN, and from then on, as long as
\* less than recovery_timeout has passed since the last counted failure, every
\* call() is rejected and the breaker stays OPEN (reset_all aside).
C2_OpensAndStaysOpen ==
    /\ []((/\ ev.op = "call"
           /\ ev.result = "expected_exception"
           /\ cb.failure_count >= cb.failure_threshold) => cb.state = OPEN)
    /\ [][(/\ cb.state = OPEN
           /\ cb.last_failure_time # <<>>
           /\ now' - cb.last_failure_time[1] < cb.recovery_timeout
           /\ ev'.op # "reset_all")
          => /\ cb' = cb
             /\ nops' # nops => (/\ ev'.result = "CircuitBreakerOpenException"
                                 /\ ~ev'.invoked)]_vars

C2_Witness ==
    /\ cb.failure_threshold = 0
    /\ cb.failure_count_total = 1
    /\ cb.state = OPEN
    /\ ev.result = "CircuitBreakerOpenException"

\* C3 as stated: the probe call invokes the function and always leaves the
\* breaker CLOSED with failure_count = 0 (it returned) or OPEN with
\* last_failure_time refreshed (it raised).
C3_ProbeAlwaysResolves ==
    ProbeCall =>
        /\ ev.invoked
        /\ IF ev.result = "returned"
           THEN cb.state = CLOSED /\ cb.failure_count = 0
           ELSE cb.state = OPEN /\ cb.last_failure_time = <<ev.at>>

\* C3 (amended): the probe call invokes the function; the breaker is CLOSED
\* with failure_count = 0 if it returned, OPEN with last_failure_time
\* refreshed if it raised an expected_exception, and left HALF_OPEN, nothing
\* else changed, if it raised any other exception.
C3_ProbeOutcome ==
    ProbeCall =>
        /\ ev.invoked
        /\ ev.result = "returned" =>
              (/\ cb.state = CLOSED
               /\ cb.failure_count = 0
               /\ cb.success_count = ev.pre.success_count + 1)
        /\ ev.result = "expected_exception" =>
              (/\ cb.state = OPEN
               /\ cb.last_failure_time = <<ev.at>>
               /\ cb.failure_count = ev.pre.failure_count + 1)
        /\ ev.result = "other_exception" =>
              cb = [ev.pre EXCEPT !.state = HALF_OPEN]
        /\ ev.result \in {"returned", "expected_exception", "other_exception"}

C3_Witness ==
    /\ ProbeCall
    /\ ev.result = "other_exception"
    /\ cb.state = HALF_OPEN
    /\ ev.pre.recovery_timeout > 0

\* C4 as stated: any successful call() resets failure_count to 0.
C4_SuccessResetsFailureCount ==
    (ev.op = "call" /\ ev.result = "returned") => cb.failure_count = 0

\* C4 (amended): a successful call() resets failure_count to 0 only when it
\* closes a breaker that was HALF_OPEN (or OPEN with the timeout elapsed); on
\* a CLOSED breaker it leaves failure_count as it was, and a counted failure on
\* a CLOSED breaker opens it exactly when failure_count, successes in between
\* or not, reaches failure_threshold.
C4_FailureCountSinceClose ==
    /\ (ev.op = "call" /\ ev.result = "returned") =>
          /\ cb.state = CLOSED
          /\ cb.failure_count =
                IF ev.pre.state = CLOSED THEN ev.pre.failure_count ELSE 0
    /\ (ev.op = "call" /\ ev.result = "expected_exception"
            /\ ev.pre.state = CLOSED) =>
          /\ cb.failure_count = ev.pre.failure_count + 1
          /\ cb.state = OPEN <=> cb.failure_count >= cb.failure_threshold
          /\ cb.state \in {OPEN, CLOSED}

C4_Witness ==
    /\ ev.op = "call"
    /\ ev.result = "returned"
    /\ ev.pre.state = CLOSED
    /\ cb.failure_count > 0

\* C5 as stated: a call() whose function raises an exception that is not an
\* expected_exception leaves the breaker exactly as it was before the call.
C5_OtherExceptionInvisible ==
    (ev.op = "call" /\ ev.result = "other_exception") => cb = ev.pre

\* C5 (amended): such a call leaves failure_count, failure_count_total,
\* success_count and last_failure_time as they were; state is unchanged when
\* the call started CLOSED or HALF_OPEN, and is HALF_OPEN when the call started
\* OPEN with the timeout elapsed.
C5_OtherExceptionFrame ==
    (ev.op = "call" /\ ev.result = "other_exception") =>
        /\ ev.invoked
        /\ cb = [ev.pre EXCEPT !.state = IF @ = OPEN THEN HALF_OPEN ELSE @]

C5_Witness ==
    /\ ev.op = "call"
    /\ ev.result = "other_exception"
    /\ ev.pre.state = OPEN
    /\ ev.pre.failure_count > 0
    /\ cb.state = HALF_OPEN

\* C8: no operation on the breaker (a call() that returns, raises a counted or
\* an uncounted exception or is rejected, or reset_all) decreases
\* success_count or failure_count_total.
C8_LifetimeCountersMonotonic ==
    [][/\ cb'.success_count >= cb.success_count
       /\ cb'.failure_count_total >= cb.failure_count_total]_vars

C8_Witness ==
    /\ ev.op = "reset_all"
    /\ ev.pre.state = OPEN
    /\ cb.success_count > 0
    /\ cb.failure_count_total > 0
    /\ cb.failure_count = 0

\* C6: in every reachable state, whatever the interleaving of call() and
\* reset_all(), an OPEN breaker has last_failure_time set.
C6_OpenHasFailureTime ==
    cb.state = OPEN => cb.last_failure_time # <<>>

\* C7: once every thread has left call(), success_count is the number of
\* functions that returned and failure_count_total the number that raised a
\* counted exception.
C7_NoLostUpdate ==
    (\A t \in Threads : pc[t] = "idle") =>
        /\ cb.success_count = tally.returned
        /\ cb.failure_count_total = tally.counted

\* C9: whatever the interleaving of acquire(), wait_for_tokens() and refills
\* and however much time passes, 0 <= tokens <= capacity.
C9_TokensWithinBounds ==
    0 <= rl.tokens /\ rl.tokens <= rl.capacity

\* the balance after the refill that acquire(n) starts with
C10_Refilled ==
    Min(rev.pre.capacity,
        rev.pre.tokens + (rev.at - rev.pre.last_update) * rev.pre.rate)

\* C10: acquire(n) with n > 0 refills, then returns true and deducts exactly n
\* if and only if the refilled balance is >= n, and otherwise returns false
\* and leaves the refilled balance; acquire(n) with n <= 0 returns false and
\* changes neither tokens nor last_update.
C10_AcquireContract ==
    rev.op = "acquire" =>
        IF rev.n > 0
        THEN /\ rev.result = (C10_Refilled >= rev.n)
             /\ rl.tokens = IF rev.result THEN C10_Refilled - rev.n ELSE C10_Refilled
             /\ rl.last_update = rev.at
             /\ rl.rate = rev.pre.rate /\ rl.capacity = rev.pre.capacity
        ELSE /\ rev.result = FALSE
             /\ rl = rev.pre

C10_Witness ==
    /\ rev.op = "acquire"
    /\ rev.n = 2
    /\ rev.result
    /\ rev.pre.tokens < 2
    /\ rl.tokens = 0

\* C11: whatever the interleaving of acquire() calls, the tokens granted up
\* to now never exceed capacity + rate * (now - creation time); the limiter is
\* created at time 0.
C11_NoDoubleSpend ==
    ledger.granted <= rl.capacity + rl.rate * now

\* the last operation was an acquire() on a limiter with capacity > 0 and
\* rate > 0 that an earlier acquire() had emptied, no acquisition since
C12_AfterDrain ==
    /\ rev.op = "acquire"
    /\ rev.pre.capacity > 0
    /\ rev.pre.rate > 0
    /\ rev.drained # <<>>

\* C12: for capacity C > 0 and rate R > 0, once acquire() calls have taken all
\* C tokens an immediate acquire(1) returns false, and an acquire(C) made C/R
\* or more after that, with no acquisition in between, returns true.
C12_DrainAndRecover ==
    C12_AfterDrain =>
        /\ (rev.n = 1 /\ rev.at = rev.drained[1]) => ~rev.result
        /\ (/\ rev.n = rev.pre.capacity
            /\ (rev.at - rev.drained[1]) * rev.pre.rate >= rev.pre.capacity)
           => rev.result

C12_Witness ==
    /\ C12_AfterDrain
    /\ rev.pre.capacity = 2
    /\ rev.pre.rate = 1
    /\ rev.n = 2
    /\ rev.at - rev.drained[1] = 2
    /\ rev.result

\* the entries of a deque, oldest first, never go back in time
NonDecreasing(q) == \A i \in 1..(Len(q) - 1) : q[i] <= q[i + 1]

\* C13: after any acquire() on the sliding window completes, under any
\* interleaving of acquire() calls, requests holds at most max_requests
\* timestamps, in non-decreasing order, each within window_seconds of the
\* current time.
C13_WindowInvariant ==
    sev.op = "acquire" =>
        /\ Len(sev.post) <= sev.pre.max_requests
        /\ NonDecreasing(sev.post)
        /\ \A i \in 1..Len(sev.post) :
              sev.at - sev.post[i] <= sev.pre.window_seconds

\* the admissions granted no more than window_seconds before the last call
\* read the clock
RecentAdmissions ==
    {i \in 1..Len(admitted) : sev.stamp - admitted[i] <= sev.pre.window_seconds}

\* C14: the sliding window never over-admits.  A call is refused only when
\* max_requests admissions lie within the window before it, and under any
\* interleaving of acquire() calls any max_requests + 1 admissions span at
\* least window_seconds.
C14_NeverOverAdmits ==
    /\ (sev.op = "acquire" /\ ~sev.result) =>
          Cardinality(RecentAdmissions) >= sev.pre.max_requests
    /\ \A i \in 1..(Len(admitted) - sw.max_requests) :
          admitted[i + sw.max_requests] - admitted[i] >= sw.window_seconds

\* the last operation was an acquire() on a full window
C15_FullWindow ==
    /\ sev.op = "acquire"
    /\ sev.pre.max_requests > 0
    /\ Len(sev.pre.requests) = sev.pre.max_requests

\* the last acquire() dropped the oldest entry, and maybe more, and appended
\* its own timestamp
C15_EvictedAndAdmitted ==
    /\ sev.result
    /\ \E k \in 1..Len(sev.pre.requests) :
          sev.post = Append(SubSeq(sev.pre.requests, k + 1, Len(sev.pre.requests)),
                            sev.at)

C16_EdgeCases ==
    /\ sw.max_requests = 0 => admitted = <<>>
    /\ sw.window_seconds = 0 => Len(admitted) <= sw.max_requests

\* the last operation ran the retry loop on an operation that raises only
\* exceptions matching retry_on_exceptions before it succeeds
C17_RetryableOperation ==
    /\ rt.op = "execute"
    /\ rt.out.result # "none"
    /\ \A i \in 1..Len(rt.plan) :
          \/ "Exception" \in rt.config.retry_on_exceptions
          \/ rt.plan[i] \in rt.config.retry_on_exceptions

\* C17: for max_attempts M >= 0 and an operation that raises a retryable
\* exception on its first k invocations and then succeeds, execute invokes
\* the operation exactly min(k + 1, M) times, returns when k < M and raises
\* RetryError when k >= M; with M = 0 the operation is never invoked.
C17_InvocationCount ==
    C17_RetryableOperation =>
        LET k == Len(rt.plan)
            M == rt.config.max_attempts
        IN  /\ rt.out.invoked = IF k + 1 <= M THEN k + 1 ELSE M
            /\ k < M => rt.out.result = "returned"
            /\ k >= M => rt.out.result = "RetryError"
            /\ M = 0 => rt.out.invoked = 0

C17_Witness ==
    /\ C17_RetryableOperation
    /\ rt.config.max_attempts = 3
    /\ Len(rt.plan) = 2
    /\ rt.out.invoked = 3
    /\ rt.out.result = "returned"

\* the i-th exception of the operation matches retry_on_exceptions
MatchesRetryOn(i) ==
    \/ "Exception" \in rt.config.retry_on_exceptions
    \/ rt.plan[i] \in rt.config.retry_on_exceptions

\* the invocations on which the retry loop of the last execute() met an
\* exception that does not match retry_on_exceptions (there is at most one)
NonRetryableFailures ==
    {j \in 1..Len(rt.plan) :
        /\ rt.op = "execute"
        /\ rt.out.result # "none"
        /\ j <= rt.config.max_attempts
        /\ ~MatchesRetryOn(j)
        /\ \A i \in 1..(j - 1) : MatchesRetryOn(i)}

\* C18: an exception that is not an instance of retry_on_exceptions ends the
\* loop: the operation is invoked exactly once on that failure, with no retry
\* and no sleep after it, and execute raises RetryError whose last_exception
\* is that exception.  Every RetryError of execute carries the most recently
\* raised exception.
C18_NonRetryableStops ==
    /\ \A j \in NonRetryableFailures :
          /\ rt.out.invoked = j
          /\ rt.out.sleeps = j - 1
          /\ rt.out.trace[Len(rt.out.trace)] = "invoke"
          /\ rt.out.result = "RetryError"
          /\ rt.out.last_exception = <<j, rt.plan[j]>>
    /\ (rt.op = "execute" /\ rt.out.result = "RetryError" /\ rt.out.invoked > 0)
          => rt.out.last_exception = <<rt.out.invoked, rt.plan[rt.out.invoked]>>

C18_Witness ==
    /\ NonRetryableFailures = {2}
    /\ rt.config.max_attempts = 3
    /\ rt.plan = <<"ConnectionError", "ValueError">>
    /\ rt.out.invoked = 2
    /\ rt.out.result = "RetryError"
    /\ rt.out.last_exception = <<2, "ValueError">>

\* C19: an exception that does not match retry_on_exceptions propagates out
\* of execute unchanged (the caller receives that exception, not a wrapper)
\* and is not retried.
C19_PropagatesUnchanged ==
    \A j \in NonRetryableFailures :
        /\ rt.out.result = rt.plan[j]
        /\ rt.out.invoked = j

\* C19 (amended): an exception that does not match retry_on_exceptions is not
\* retried, and the caller receives a RetryError that holds it as
\* last_exception, never the exception itself.
C19_WrappedNotRetried ==
    \A j \in NonRetryableFailures :
        /\ rt.out.result = "RetryError"
        /\ rt.out.result # rt.plan[j]
        /\ rt.out.last_exception = <<j, rt.plan[j]>>
        /\ rt.out.invoked = j

C19_Witness ==
    /\ NonRetryableFailures = {1}
    /\ rt.config.max_attempts = 2
    /\ rt.plan[1] = "ValueError"
    /\ rt.out.invoked = 1
    /\ rt.out.result = "RetryError"

\* the last operation was an execute() of a CircuitBreakerAwareRetry whose
\* operation failed on every one of its max_attempts attempts
C20_AllAttemptsFailed ==
    /\ rt.op = "execute"
    /\ rt.circuit_breaker
    /\ rt.out.result = "RetryError"
    /\ rt.out.invoked = rt.config.max_attempts

\* the last operation was an execute() of a CircuitBreakerAwareRetry that
\* succeeded after at least one retry
C20_SucceededAfterRetries ==
    /\ rt.op = "execute"
    /\ rt.circuit_breaker
    /\ rt.out.result = "returned"
    /\ rt.out.invoked > 1

C20_OneFailure ==
    /\ cb.failure_count = rt.pre.failure_count + 1
    /\ cb.failure_count_total = rt.pre.failure_count_total + 1
    /\ cb.success_count = rt.pre.success_count

C20_OneSuccessNoFailure ==
    /\ cb.success_count = rt.pre.success_count + 1
    /\ cb.failure_count_total = rt.pre.failure_count_total
    /\ cb.failure_count <= rt.pre.failure_count
    /\ cb.last_failure_time = rt.pre.last_failure_time

\* C20: an execute() whose operation fails on all max_attempts attempts
\* raises the breaker's failure_count and failure_count_total by exactly 1,
\* and an execute() that succeeds after some retries records one success and
\* no failure.
C20_OneOutcomePerExecute ==
    /\ C20_AllAttemptsFailed => C20_OneFailure
    /\ C20_SucceededAfterRetries => C20_OneSuccessNoFailure

\* C20 (amended): when RetryError is an instance of the breaker's
\* expected_exception, an execute() whose operation fails on all max_attempts
\* attempts raises failure_count and failure_count_total by exactly 1; an
\* execute() that succeeds after some retries records one success and no
\* failure.
C20_OneOutcomeWhenExpected ==
    /\ (C20_AllAttemptsFailed /\ rt.expected_exception \in {"Exception", "RetryError"})
          => C20_OneFailure
    /\ C20_SucceededAfterRetries => C20_OneSuccessNoFailure

C20_Witness ==
    /\ C20_AllAttemptsFailed
    /\ rt.expected_exception = "Exception"
    /\ rt.config.max_attempts = 3
    /\ rt.out.sleeps = 2
    /\ rt.pre.failure_count = 1
    /\ cb.failure_count = 2
    /\ cb.failure_count_total = 2

\* ------------------------------------------------------------ registries
\* C21: get_limiter and get_circuit_breaker are idempotent per name: under
\* any thread interleaving at most one instance is ever made for a name, and
\* a call returns the instance made for the name it was given.
C21_OneInstancePerName ==
    /\ \A i, j \in DOMAIN api_rl.made :
          api_rl.made[i] = api_rl.made[j] => i = j
    /\ \A i, j \in DOMAIN api_cb.made :
          api_cb.made[i] = api_cb.made[j] => i = j
    /\ rgev.op = "get_limiter" => api_rl.made[rgev.got] = rgev.endpoint
    /\ rgev.op = "get_circuit_breaker" => api_cb.made[rgev.got] = rgev.endpoint

\* C22 as stated: after reset_all() every tracked breaker is CLOSED with
\* failure_count, failure_count_total and success_count all 0.
C22_ResetZeroesEveryCounter ==
    rgev.op = "reset_all" =>
        \A e \in DOMAIN api_cb.circuit_breakers :
            LET b == api_cb.objects[api_cb.circuit_breakers[e]]
            IN  /\ b.state = CLOSED
                /\ b.failure_count = 0
                /\ b.failure_count_total = 0
                /\ b.success_count = 0

\* C22, amended: after reset_all() every tracked breaker is CLOSED with
\* failure_count 0 and no last_failure_time; its lifetime counters
\* success_count and failure_count_total, its configuration and the
\* registry's mapping are what they were before.
C22_ResetClosesEveryBreaker ==
    rgev.op = "reset_all" =>
        /\ api_cb.circuit_breakers = rgev.pre_cb.circuit_breakers
        /\ Len(api_cb.objects) = Len(rgev.pre_cb.objects)
        /\ \A e \in DOMAIN api_cb.circuit_breakers :
              LET b == api_cb.objects[api_cb.circuit_breakers[e]]
                  p == rgev.pre_cb.objects[rgev.pre_cb.circuit_breakers[e]]
              IN  b = [p EXCEPT !.state = CLOSED,
                                !.failure_count = 0,
                                !.last_failure_time = <<>>]

\* reset_all() has just run on a registry that tracked an OPEN breaker with
\* counted failures
C22_Witness ==
    /\ rgev.op = "reset_all"
    /\ \E e \in DOMAIN rgev.pre_cb.circuit_breakers :
          LET p == rgev.pre_cb.objects[rgev.pre_cb.circuit_breakers[e]]
          IN  /\ p.state = OPEN
              /\ p.failure_count > 0
              /\ p.failure_count_total > 0

\* the category C23 gives an endpoint name, whatever its case
ClaimedCategory(name) ==
    IF name.words \cap {"price", "history"} # {} THEN "history"
    ELSE IF name.words \cap {"search", "instrument"} # {} THEN "search"
    ELSE IF name.words \cap {"list", "index"} # {} THEN "list"
    ELSE IF name.words \cap {"details", "info"} # {} THEN "details"
    ELSE "default"

\* C23: both registries infer the category of an endpoint name in one
\* priority order, price/history first, then search/instrument or
\* list/index, then details/info, then the default: the limiter made for a
\* name has the limits of that category, and the breaker made for it has the
\* stricter threshold for history, the looser one for search and list, and
\* the base threshold otherwise.
C23_OnePriorityOrder ==
    /\ rgev.op = "get_limiter" =>
          LET l == api_rl.objects[rgev.got]
              c == ClaimedCategory(rgev.endpoint)
          IN  /\ c = "history" => l.rate = 2 /\ l.capacity = 5
              /\ c = "search" => l.rate = 10 /\ l.capacity = 20
              /\ c = "list" => l.rate = 5 /\ l.capacity = 10
              /\ c = "details" => l.rate = 20 /\ l.capacity = 50
              /\ c = "default" => l.rate = 10 /\ l.capacity = 20
    /\ rgev.op = "get_circuit_breaker" =>
          LET b == api_cb.objects[rgev.got]
              c == ClaimedCategory(rgev.endpoint)
          IN  /\ c = "history" =>
                    b.failure_threshold = api_cb.base_failure_threshold - 1
              /\ c \in {"search", "list"} =>
                    b.failure_threshold = api_cb.base_failure_threshold + 1
              /\ c \in {"details", "default"} =>
                    b.failure_threshold = api_cb.base_failure_threshold

\* the place of a category in the ordering history < default < list/search
\* < details
Permissiveness(category) ==
    CASE category = "history" -> 0
      [] category = "default" -> 1
      [] category \in {"list", "search"} -> 2
      [] OTHER -> 3

\* C24: the limits keep the ordering history < default < list/search <
\* details: of two limiters of the registry, the one of the less permissive
\* category has the lower rate and the lower capacity; a breaker of the
\* registry made for a history name has a lower failure_threshold than one
\* made for a default name, and one made for a list or search name a higher
\* one.
C24_OrderingPreserved ==
    /\ \A e1, e2 \in DOMAIN api_rl.limiters :
          LET l1 == api_rl.objects[api_rl.limiters[e1]]
              l2 == api_rl.objects[api_rl.limiters[e2]]
          IN  Permissiveness(ClaimedCategory(e1))
                  < Permissiveness(ClaimedCategory(e2))
              => l1.rate < l2.rate /\ l1.capacity < l2.capacity
    /\ \A e1, e2 \in DOMAIN api_cb.circuit_breakers :
          LET b1 == api_cb.objects[api_cb.circuit_breakers[e1]]
              b2 == api_cb.objects[api_cb.circuit_breakers[e2]]
          IN  \/ /\ ClaimedCategory(e1) = "history"
                 /\ ClaimedCategory(e2) = "default"
              \/ /\ ClaimedCategory(e1) = "default"
                 /\ e2.words \cap {"list", "search"} # {}
              => b1.failure_threshold < b2.failure_threshold

\* C25: CircuitBreaker.get_status, APICircuitBreaker.get_all_status and
\* APIRateLimiter.get_status change nothing: every limiter, every breaker
\* and both mappings are afterwards what they were before the call.
C25_StatusIsReadOnly ==
    rgev.op \in {"CircuitBreaker.get_status", "get_all_status",
                 "APIRateLimiter.get_status"}
    => api_rl = rgev.pre_rl /\ api_cb = rgev.pre_cb

\* C26: single probe.  While the breaker is HALF_OPEN, that is from the
\* probe's admission until its outcome is recorded, a call() that arrives
\* at the state test of line 98, from whichever thread, is not let through
\* to the invocation of its operation at line 106.
C26_SingleProbe ==
    [][\A t \in Threads :
          pc[t] = "call_98" /\ cb.state = HALF_OPEN => pc'[t] # "call_106"]_vars

\* C27: a call() that finds the breaker CLOSED and whose function returns
\* changes success_count, by one, and nothing else: state, failure_count,
\* failure_count_total and last_failure_time are what they were.
C27_SuccessOnClosedFrame ==
    ev.op = "call" /\ ev.pre.state = CLOSED /\ ev.result = "returned" =>
        /\ ev.invoked
        /\ cb = [ev.pre EXCEPT !.success_count = @ + 1]

\* a call returned on a CLOSED breaker that had failures counted
C27_Witness ==
    /\ ev.op = "call"
    /\ ev.pre.state = CLOSED
    /\ ev.result = "returned"
    /\ ev.pre.failure_count > 0
    /\ ev.pre.last_failure_time # <<>>
    /\ cb.failure_count = ev.pre.failure_count

\* the caller is in wait_for_tokens(n)
InWait(n) ==
    /\ pc[Caller] # "idle"
    /\ frame[Caller].op = "wait_for_tokens"
    /\ frame[Caller].tokens = n

\* the last call of the caller was a wait_for_tokens and it has returned
WaitReturned == rev.op = "wait_for_tokens" /\ pc[Caller] = "idle"

\* wait_for_tokens(n) with n <= 0 does not get past line 70, and when it has
\* returned the limiter is what it was
C28_NothingToWaitFor ==
    /\ \A n \in Requests : InWait(n) /\ n <= 0 => pc[Caller] = "wait_70"
    /\ WaitReturned /\ rev.n <= 0 => rl = rev.pre /\ ledger.granted = rev.granted

\* wait_for_tokens(n) with n > 0 returns only if n <= capacity and either
\* rate > 0 or n tokens were there at the start, and when it has returned
\* exactly n tokens have been taken: the balance is the refilled balance less
\* n, and n more tokens are granted than before
C28_ReturnsOnlyWithTokens ==
    WaitReturned /\ rev.n > 0 =>
        /\ rev.n <= rev.pre.capacity
        /\ rev.pre.rate > 0 \/ rev.pre.tokens >= rev.n
        /\ ledger.granted = rev.granted + rev.n
        /\ rl.tokens = Min(rev.pre.capacity,
                           rev.pre.tokens
                             + (rl.last_update - rev.pre.last_update) * rev.pre.rate)
                       - rev.n

\* C28: with no competing caller, wait_for_tokens(n) returns in the end if
\* n <= 0 or if rate > 0 and n <= capacity; with n <= 0 it returns at line
\* 70 and changes nothing; with n > 0 it has taken exactly n tokens when it
\* returns, and it never returns if n > capacity or if rate = 0 and fewer
\* than n tokens are there.
C28_WaitTermination ==
    /\ (\E n \in Requests :
            InWait(n) /\ (n <= 0 \/ (rl.rate > 0 /\ n <= rl.capacity)))
          ~> (pc[Caller] = "idle")
    /\ [](C28_NothingToWaitFor /\ C28_ReturnsOnlyWithTokens)

\* wait_for_tokens(n) has returned with its n tokens after it found fewer
\* than n in the bucket and slept
C28_Witness ==
    /\ WaitReturned
    /\ rev.n > 0
    /\ rev.pre.tokens < rev.n
    /\ rl.last_update > rev.at
    /\ ledger.granted = rev.granted + rev.n

\* C29: an execute() of a CircuitBreakerAwareRetry that finds its breaker
\* OPEN before recovery_timeout has elapsed raises
\* CircuitBreakerOpenException itself, not a RetryError; the operation is
\* not invoked, there is no sleep, and the breaker is left as it was.  (The
\* clock does not go back, so a timeout that has not elapsed now had not
\* elapsed when execute() was called.)
C29_RejectedBeforeRetry ==
    (/\ rt.op = "execute"
     /\ rt.circuit_breaker
     /\ rt.pre.state = OPEN
     /\ rt.pre.last_failure_time # <<>>
     /\ now - rt.pre.last_failure_time[1] < rt.pre.recovery_timeout)
    => /\ rt.result = "CircuitBreakerOpenException"
       /\ rt.out.invoked = 0
       /\ rt.out.sleeps = 0
       /\ rt.out.trace = <<>>
       /\ cb = rt.pre

\* an execute() with an operation that would have been invoked was rejected
\* by the OPEN breaker
C29_Witness ==
    /\ rt.op = "execute"
    /\ rt.circuit_breaker
    /\ rt.pre.state = OPEN
    /\ rt.pre.last_failure_time # <<>>
    /\ now - rt.pre.last_failure_time[1] < rt.pre.recovery_timeout
    /\ rt.config.max_attempts > 0
    /\ rt.result = "CircuitBreakerOpenException"
    /\ cb = rt.pre

\* the retry loop of the last execute() ran
C30_LoopRan ==
    /\ rt.op = "execute"
    /\ rt.result # "CircuitBreakerOpenException"

\* the places of a kind of step in the invoke/sleep trace of the loop
C30_Steps(kind) == {i \in 1..Len(rt.out.trace) : rt.out.trace[i] = kind}

\* C30: execute sleeps only between attempts.  In the trace of the loop
\* every sleep stands between two invocations, the one before it having
\* raised an exception that matches retry_on_exceptions, and every
\* invocation but the first comes right after a sleep; nothing follows the
\* invocation that returned, the max_attempts-th invocation, or one that
\* raised a non-matching exception.  So the sleeps are the invocations less
\* one, and none when max_attempts <= 1.
C30_SleepsOnlyBetweenAttempts ==
    C30_LoopRan =>
        LET trace == rt.out.trace
            n == Len(trace)
        IN  /\ rt.out.invoked = Cardinality(C30_Steps("invoke"))
            /\ rt.out.sleeps = Cardinality(C30_Steps("sleep"))
            /\ \A i \in 1..n : trace[i] = (IF i % 2 = 1 THEN "invoke" ELSE "sleep")
            /\ n > 0 => trace[n] = "invoke"
            /\ \A i \in C30_Steps("sleep") :
                  /\ i \div 2 <= Len(rt.plan)
                  /\ MatchesRetryOn(i \div 2)
                  /\ i \div 2 < rt.config.max_attempts
            /\ rt.out.invoked >= 1 => rt.out.sleeps = rt.out.invoked - 1
            /\ rt.config.max_attempts <= 1 => rt.out.sleeps = 0
            /\ rt.out.invoked <= rt.config.max_attempts
            /\ \A j \in NonRetryableFailures : rt.out.invoked = j

\* an execute() slept between attempts and then stopped without a sleep:
\* after its last attempt failed too
C30_Witness ==
    /\ C30_LoopRan
    /\ rt.out.sleeps >= 1
    /\ rt.out.invoked = rt.config.max_attempts
    /\ rt.out.result = "RetryError"
    /\ rt.out.sleeps = rt.out.invoked - 1

====
